---- MODULE Spec2Model ----
(***************************************************************************)
(* Model of the btrfs graph driver (package btrfs): subvolume primitives,  *)
(* the quota subsystem and the Driver facade (Create, Remove, Get, Put,    *)
(* Exists).  The file system below home/subvolumes is a map from paths     *)
(* (sequences of names, <<id>> being home/subvolumes/<id>) to directory    *)
(* entries; home/quotas is a map from layer ids to file contents.          *)
(***************************************************************************)
EXTENDS Integers, Sequences, FiniteSets, TLC

VARIABLES subvolumes,    \* path -> [dir, ino]: the tree below home/subvolumes
          quotas,        \* id -> content of home/quotas/<id> (sequence of characters)
          limits,        \* subvolume path -> max_rfer limit of its quota group
          fsQuota,       \* quota accounting is enabled on the file system
          quotaEnabled,  \* Driver.quotaEnabled
          once,          \* Driver.once: "new", "running" while the probe runs, then "done"
          minSpace,      \* Driver.options.minSpace
          idMap,         \* Driver.idMap: the uid and gid of the mapped root user
          driver,        \* "none" before Init, then "ready" or "failed"
          created,       \* ids whose Create succeeded and whose Remove was not called since
          last,          \* the last call: its name, layer id and result
          calls,         \* concurrent run: the call each thread executes
          pc,            \* concurrent run: each thread's position
          loc,           \* concurrent run: each thread's local variables
          world0         \* concurrent run: the state in which the calls started

vars == <<subvolumes, quotas, limits, fsQuota, quotaEnabled, once, minSpace, idMap,
          driver, created, last, calls, pc, loc, world0>>

----------------------------------------------------------------------------
\* Bounds of the model.

\* layer ids are 1..MaxIds; 0 stands for the empty parent id
MaxIds == 2
\* byte counts range over 0..MaxSize
MaxSize == 2
\* an option list or option map holds at most MaxOpts entries
MaxOpts == 2
\* external tooling puts at most MaxNested entries inside the layers
MaxNested == 2

Ids == 1..MaxIds
NoParent == 0
\* names of the entries external tooling creates inside a layer
Names == {1, 2}

\* inode number of a subvolume root (BTRFS_FIRST_FREE_OBJECTID in linux/btrfs_tree.h)
BTRFS_FIRST_FREE_OBJECTID == 256
\* inode number of the placeholder a snapshot holds for a nested subvolume
BTRFS_EMPTY_SUBVOL_DIR_OBJECTID == 2
\* inode number standing for any ordinary file or directory
OrdinaryIno == BTRFS_FIRST_FREE_OBJECTID + 1

SubvolEntry == [dir |-> TRUE, ino |-> BTRFS_FIRST_FREE_OBJECTID]
DirEntry == [dir |-> TRUE, ino |-> OrdinaryIno]
FileEntry == [dir |-> FALSE, ino |-> OrdinaryIno]
EmptySubvolDir == [dir |-> TRUE, ino |-> BTRFS_EMPTY_SUBVOL_DIR_OBJECTID]

----------------------------------------------------------------------------
\* Paths and maps.

Restrict(f, S) == [x \in S |-> f[x]]
Put1(f, k, v) == [x \in (DOMAIN f) \cup {k} |-> IF x = k THEN v ELSE f[x]]
Drop(f, S) == Restrict(f, (DOMAIN f) \ S)

IsPrefix(p, q) == Len(p) <= Len(q) /\ SubSeq(q, 1, Len(p)) = p
Under(p, q) == IsPrefix(p, q) /\ Len(q) > Len(p)
\* path.Dir and the last element of a path
DirOf(p) == SubSeq(p, 1, Len(p) - 1)
NameOf(p) == p[Len(p)]
\* the subvolumes directory itself is <<>>
IsDir(sv, p) == p = <<>> \/ (p \in DOMAIN sv /\ sv[p].dir)
Tree(sv, p) == {q \in DOMAIN sv : IsPrefix(p, q)}
ChildNames(sv, p) == {q[Len(p) + 1] : q \in {r \in DOMAIN sv : DirOf(r) = p /\ Len(r) = Len(p) + 1}}

RECURSIVE SortedSeq(_)
\* os.ReadDir returns the entries sorted by name
SortedSeq(S) ==
    IF S = {} THEN <<>>
    ELSE LET m == CHOOSE x \in S : \A y \in S : x <= y
         IN <<m>> \o SortedSeq(S \ {m})

\* A world is the state the driver acts on, with the operations issued so far.
World(sv, qf, lim, kq, qe, on, ms, idm) ==
    [sv |-> sv, qf |-> qf, lim |-> lim, kq |-> kq, qe |-> qe, once |-> on,
     ms |-> ms, idm |-> idm, tr |-> <<>>]

\* an issued operation (a control operation or a file-system call) and its outcome
Op(name, p, ok) == [op |-> name, path |-> p, ok |-> ok]
Issue(w, name, p, ok) == [w EXCEPT !.tr = Append(@, Op(name, p, ok))]

OK == "ok"
Ret(w, err) == [w |-> w, err |-> err]

----------------------------------------------------------------------------
\* Decimal text: fmt.Sprint of an unsigned number, strconv.ParseUint, and the
\* plain-number subset of units.RAMInBytes.

Digit == <<"0", "1", "2", "3", "4", "5", "6", "7", "8", "9">>
IsDigit(c) == \E i \in 1..10 : Digit[i] = c
DigitVal(c) == (CHOOSE i \in 1..10 : Digit[i] = c) - 1

RECURSIVE Sprint(_)
Sprint(n) ==
    IF n < 10 THEN <<Digit[n + 1]>>
    ELSE Sprint(n \div 10) \o <<Digit[(n % 10) + 1]>>

RECURSIVE DigitsValue(_)
DigitsValue(s) ==
    IF s = <<>> THEN 0
    ELSE 10 * DigitsValue(SubSeq(s, 1, Len(s) - 1)) + DigitVal(s[Len(s)])

\* strconv.ParseUint(s, 10, 64); the model's numbers stay far below 2^64
ParseUint(s) ==
    IF s = <<>> \/ \E i \in 1..Len(s) : ~IsDigit(s[i])
    THEN [err |-> "syntax", n |-> 0]
    ELSE [err |-> OK, n |-> DigitsValue(s)]

\* units.RAMInBytes on a size without a unit suffix
RAMInBytes(val) ==
    IF ParseUint(val).err /= OK THEN [err |-> "parse_size", n |-> 0 - 1]
    ELSE [err |-> OK, n |-> ParseUint(val).n]

\* strings.ToLower on the option keys of the model
ToLower(key) ==
    CASE key = "SIZE" -> "size"
      [] key = "BTRFS.MIN_SPACE" -> "btrfs.min_space"
      [] OTHER -> key

----------------------------------------------------------------------------
\* Subvolume primitives.

\* subvolCreate making an ordinary directory instead of a subvolume
subvolCreate_PlainDir(w, dirpath, name, F) ==
    LET p == Append(dirpath, name)
        ok == "create" \notin F /\ p \notin DOMAIN w.sv
    IN IF ~IsDir(w.sv, dirpath) THEN Ret(w, "opendir")
       ELSE IF ok THEN Ret([Issue(w, "subvol_create", p, TRUE)
                                EXCEPT !.sv = Put1(@, p, DirEntry)], OK)
       ELSE Ret(Issue(w, "subvol_create", p, FALSE), "create")

\* subvolCreate(path, name): BTRFS_IOC_SUBVOL_CREATE in the directory path
subvolCreate(w, dirpath, name, F) ==
    LET p == Append(dirpath, name)
        ok == "create" \notin F /\ p \notin DOMAIN w.sv
    IN IF ~IsDir(w.sv, dirpath) THEN Ret(w, "opendir")
       ELSE IF ok THEN Ret([Issue(w, "subvol_create", p, TRUE)
                                EXCEPT !.sv = Put1(@, p, SubvolEntry)], OK)
       ELSE Ret(Issue(w, "subvol_create", p, FALSE), "create")

\* the entries a snapshot of src holds at dest: files and directories are
\* cloned, a nested subvolume is left behind as an empty placeholder directory
SnapshotTree(sv, src, dest) ==
    LET inside(q) == \A k \in (Len(src) + 1)..(Len(q) - 1) :
                         sv[SubSeq(q, 1, k)].ino /= BTRFS_FIRST_FREE_OBJECTID
        copied == {q \in Tree(sv, src) : inside(q)}
        to(q) == dest \o SubSeq(q, Len(src) + 1, Len(q))
    IN [r \in {to(q) : q \in copied} |->
          LET q == CHOOSE x \in copied : to(x) = r
          IN IF q = src THEN SubvolEntry
             ELSE IF sv[q].ino = BTRFS_FIRST_FREE_OBJECTID THEN EmptySubvolDir
             ELSE sv[q]]

\* subvolSnapshot(src, dest, name): BTRFS_IOC_SNAP_CREATE_V2 in dest with the
\* descriptor of src as the source
subvolSnapshot(w, src, dest, name, F) ==
    LET p == Append(dest, name)
        ok == /\ "snapshot" \notin F
              /\ p \notin DOMAIN w.sv
              /\ w.sv[src].ino = BTRFS_FIRST_FREE_OBJECTID
        new == SnapshotTree(w.sv, src, p)
    IN IF ~IsDir(w.sv, src) \/ ~IsDir(w.sv, dest) THEN Ret(w, "opendir")
       ELSE IF ok THEN Ret([Issue(w, "snap_create", p, TRUE)
                                EXCEPT !.sv = [q \in (DOMAIN w.sv) \cup (DOMAIN new) |->
                                                 IF q \in DOMAIN new THEN new[q] ELSE w.sv[q]]],
                           OK)
       ELSE Ret(Issue(w, "snap_create", p, FALSE), "snapshot")

\* isSubvolume(p): Lstat, then the inode number against BTRFS_FIRST_FREE_OBJECTID
isSubvolume(sv, p) ==
    IF p \notin DOMAIN sv THEN [err |-> "ENOENT", sv |-> FALSE]
    ELSE [err |-> OK, sv |-> sv[p].ino = BTRFS_FIRST_FREE_OBJECTID]

\* subvolLookupQgroup(path): BTRFS_IOC_INO_LOOKUP; the tree id stands for the
\* quota group and is never 0 for a directory of the file system
subvolLookupQgroup(w, p, F) ==
    IF ~IsDir(w.sv, p) THEN Ret(w, "opendir")
    ELSE IF "lookup" \in F THEN Ret(Issue(w, "ino_lookup", p, FALSE), "lookup")
    ELSE Ret(Issue(w, "ino_lookup", p, TRUE), OK)

\* BTRFS_IOC_SNAP_DESTROY succeeds on a subvolume that holds no other subvolume
destroyOK(w, p, F) ==
    /\ isSubvolume(w.sv, p).sv
    /\ \A q \in Tree(w.sv, p) : q = p \/ ~isSubvolume(w.sv, q).sv
    /\ IF Len(p) = 1 THEN "destroy" \notin F ELSE "destroy_nested" \notin F

RECURSIVE subvolDelete(_, _, _, _, _)
RECURSIVE walkDir(_, _, _, _, _, _)
RECURSIVE walkEntries(_, _, _, _, _, _, _)

\* walkSubVolumes without the delete of the nested subvolumes
walkSubVolumes_NoChildren(w, p, f, err, fullPath, quotaOn, F) ==
    IF err /= OK THEN
        IF err = "ENOENT" /\ p /= fullPath THEN Ret(w, OK) ELSE Ret(w, "walk")
    ELSE IF f.dir /\ p /= fullPath THEN
        IF isSubvolume(w.sv, p).err /= OK \/ "stat" \in F THEN Ret(w, "test_subvolume")
        ELSE Ret(w, OK)
    ELSE Ret(w, OK)

\* walkSubVolumes giving up at every error it is handed
walkSubVolumes_Intolerant(w, p, f, err, fullPath, quotaOn, F) ==
    IF err /= OK THEN Ret(w, "walk")
    ELSE IF f.dir /\ p /= fullPath THEN
        IF isSubvolume(w.sv, p).err /= OK \/ "stat" \in F THEN Ret(w, "test_subvolume")
        ELSE IF isSubvolume(w.sv, p).sv THEN
            LET r == subvolDelete(w, DirOf(p), NameOf(p), quotaOn, F)
            IN IF r.err /= OK THEN Ret(r.w, "child") ELSE r
        ELSE Ret(w, OK)
    ELSE Ret(w, OK)

\* the closure walkSubVolumes of subvolDelete; the lstat of isSubvolume may fail
walkSubVolumes(w, p, f, err, fullPath, quotaOn, F) ==
    IF err /= OK THEN
        IF err = "ENOENT" /\ p /= fullPath THEN Ret(w, OK) ELSE Ret(w, "walk")
    ELSE IF f.dir /\ p /= fullPath THEN
        IF isSubvolume(w.sv, p).err /= OK \/ "stat" \in F THEN Ret(w, "test_subvolume")
        ELSE IF isSubvolume(w.sv, p).sv THEN
            LET r == subvolDelete(w, DirOf(p), NameOf(p), quotaOn, F)
            IN IF r.err /= OK THEN Ret(r.w, "child") ELSE r
        ELSE Ret(w, OK)
    ELSE Ret(w, OK)

\* the error of os.ReadDir(p) in a walk rooted at fullPath: the directory has
\* vanished, or it cannot be read
readDirErr(sv, p, fullPath, F) ==
    IF p \notin DOMAIN sv THEN "ENOENT"
    ELSE IF (p = fullPath /\ "readdir_root" \in F) \/ (p /= fullPath /\ "readdir" \in F)
    THEN "EACCES"
    ELSE OK

\* filepath.walkDir: the function on the entry, then on its entries in order;
\* a failing ReadDir is reported by a second call of the function
walkDir(w, p, d, fullPath, quotaOn, F) ==
    LET r == walkSubVolumes(w, p, d, OK, fullPath, quotaOn, F)
    IN IF r.err /= OK \/ ~d.dir THEN r
       ELSE IF readDirErr(r.w.sv, p, fullPath, F) /= OK
            THEN walkSubVolumes(r.w, p, d, readDirErr(r.w.sv, p, fullPath, F),
                                fullPath, quotaOn, F)
       ELSE walkEntries(r.w, p, SortedSeq(ChildNames(r.w.sv, p)), r.w.sv,
                        fullPath, quotaOn, F)

walkEntries(w, p, names, listing, fullPath, quotaOn, F) ==
    IF names = <<>> THEN Ret(w, OK)
    ELSE LET p1 == Append(p, Head(names))
             r == walkDir(w, p1, listing[p1], fullPath, quotaOn, F)
         IN IF r.err /= OK THEN r
            ELSE walkEntries(r.w, p, Tail(names), listing, fullPath, quotaOn, F)

\* filepath.WalkDir(root, fn)
WalkDir(w, root, quotaOn, F) ==
    IF root \notin DOMAIN w.sv
    THEN walkSubVolumes(w, root, DirEntry, "ENOENT", root, quotaOn, F)
    ELSE walkDir(w, root, w.sv[root], root, quotaOn, F)

\* the quota branch of subvolDelete: look the group up and remove it; a
\* failure of either is logged only
removeQgroup(w, fullPath, F) ==
    LET l == subvolLookupQgroup(w, fullPath, F)
        ok == "qgroup_remove" \notin F
    IN IF l.err /= OK THEN l.w
       ELSE IF ok THEN [Issue(l.w, "qgroup_remove", fullPath, TRUE)
                            EXCEPT !.lim = Drop(@, {fullPath})]
       ELSE Issue(l.w, "qgroup_remove", fullPath, FALSE)

\* the destroy given up after a failed lookup or removal of the quota group
snapDestroy_AfterQgroup(w, fullPath, F) ==
    IF \E i \in DOMAIN w.tr : /\ w.tr[i].op \in {"ino_lookup", "qgroup_remove"}
                              /\ w.tr[i].path = fullPath /\ ~w.tr[i].ok
    THEN Ret(w, "qgroup")
    ELSE IF destroyOK(w, fullPath, F)
    THEN Ret([Issue(w, "snap_destroy", fullPath, TRUE)
                 EXCEPT !.sv = Drop(@, Tree(w.sv, fullPath)),
                        !.lim = Drop(@, Tree(w.sv, fullPath))], OK)
    ELSE Ret(Issue(w, "snap_destroy", fullPath, FALSE), "destroy")

\* the final BTRFS_IOC_SNAP_DESTROY of subvolDelete
snapDestroy(w, fullPath, F) ==
    IF destroyOK(w, fullPath, F)
    THEN Ret([Issue(w, "snap_destroy", fullPath, TRUE)
                 EXCEPT !.sv = Drop(@, Tree(w.sv, fullPath)),
                        !.lim = Drop(@, Tree(w.sv, fullPath))], OK)
    ELSE Ret(Issue(w, "snap_destroy", fullPath, FALSE), "destroy")

\* subvolDelete(dirpath, name, quotaEnabled)
subvolDelete(w, dirpath, name, quotaOn, F) ==
    LET fullPath == Append(dirpath, name)
        r == WalkDir(w, fullPath, quotaOn, F)
    IN IF ~IsDir(w.sv, dirpath) THEN Ret(w, "opendir")
       ELSE IF r.err /= OK THEN Ret(r.w, "walk")
       ELSE snapDestroy(IF quotaOn THEN removeQgroup(r.w, fullPath, F) ELSE r.w,
                        fullPath, F)

----------------------------------------------------------------------------
\* Quota subsystem.

\* qgroupStatus(path): BTRFS_IOC_TREE_SEARCH for the quota status key
qgroupStatus(w, F) ==
    IF w.kq /\ "status" \notin F
    THEN Ret(Issue(w, "qgroup_status", <<>>, TRUE), OK)
    ELSE Ret(Issue(w, "qgroup_status", <<>>, FALSE), "status")

\* the function Driver.updateQuotaStatus hands to once.Do
probeQuota(w, F) ==
    IF ~w.qe THEN
        LET r == qgroupStatus(w, F)
        IN IF r.err /= OK THEN r.w ELSE [r.w EXCEPT !.qe = TRUE]
    ELSE w

\* updateQuotaStatus without the once: the probe runs in every call
updateQuotaStatus_NoOnce(w, F) == [probeQuota(w, F) EXCEPT !.once = "done"]

\* Driver.updateQuotaStatus
updateQuotaStatus(w, F) ==
    IF w.once = "done" THEN w
    ELSE [probeQuota(w, F) EXCEPT !.once = "done"]

\* BTRFS_IOC_QUOTA_CTL with BTRFS_QUOTA_CTL_ENABLE, and the flag set after it
quotaCtlEnable(w, F) ==
    IF "enable" \in F THEN Ret(Issue(w, "quota_enable", <<>>, FALSE), "enable")
    ELSE Ret([Issue(w, "quota_enable", <<>>, TRUE) EXCEPT !.kq = TRUE, !.qe = TRUE], OK)

\* enableQuota without the early return, the flag set to the outcome of the ioctl
enableQuota_AssignOutcome(w, F) ==
    LET u == updateQuotaStatus(w, F)
        c == quotaCtlEnable(u, F)
    IN IF c.err /= OK THEN Ret([c.w EXCEPT !.qe = FALSE], c.err) ELSE c

\* enableQuota without the early return: the ioctl is issued in every call
enableQuota_NoEarlyReturn(w, F) == quotaCtlEnable(updateQuotaStatus(w, F), F)

\* Driver.enableQuota
enableQuota(w, F) ==
    LET u == updateQuotaStatus(w, F)
    IN IF u.qe THEN Ret(u, OK) ELSE quotaCtlEnable(u, F)

\* subvolRescanQuota with the error of the rescan logged instead of returned
subvolRescanQuota_Absorbed(w, F) ==
    LET u == updateQuotaStatus(w, F)
    IN IF ~u.qe THEN Ret(u, OK)
       ELSE IF "rescan" \in F THEN Ret(Issue(u, "quota_rescan", <<>>, FALSE), OK)
       ELSE Ret(Issue(u, "quota_rescan", <<>>, TRUE), OK)

\* Driver.subvolRescanQuota
subvolRescanQuota(w, F) ==
    LET u == updateQuotaStatus(w, F)
    IN IF ~u.qe THEN Ret(u, OK)
       ELSE IF "rescan" \in F THEN Ret(Issue(u, "quota_rescan", <<>>, FALSE), "rescan")
       ELSE Ret(Issue(u, "quota_rescan", <<>>, TRUE), OK)

\* subvolLimitQgroup(path, size): BTRFS_IOC_QGROUP_LIMIT with max_rfer = size
subvolLimitQgroup(w, p, size, F) ==
    IF ~IsDir(w.sv, p) THEN Ret(w, "opendir")
    ELSE IF "limit" \in F THEN Ret(Issue(w, "qgroup_limit", p, FALSE), "limit")
    ELSE Ret([Issue(w, "qgroup_limit", p, TRUE) EXCEPT !.lim = Put1(@, p, size)], OK)

----------------------------------------------------------------------------
\* Driver facade.

RECURSIVE parseStorageOptFrom(_, _, _)
\* the loop of Driver.parseStorageOpt over the keys in the order the map yields them
parseStorageOptFrom(storageOpt, order, size) ==
    IF order = <<>> THEN [err |-> OK, size |-> size]
    ELSE IF ToLower(Head(order)) = "size" THEN
        LET v == RAMInBytes(storageOpt[Head(order)])
        IN IF v.err /= OK THEN [err |-> v.err, size |-> size]
           ELSE parseStorageOptFrom(storageOpt, Tail(order), v.n)
    ELSE [err |-> "unknown_option", size |-> size]

\* Driver.parseStorageOpt(storageOpt, driver) on a fresh driver (size 0)
parseStorageOpt(storageOpt, order) == parseStorageOptFrom(storageOpt, order, 0)

\* setStorageSize without the comparison against the min_space floor
setStorageSize_NoFloor(w, dir, size, F) ==
    IF size = 0 THEN Ret(w, "invalid_size")
    ELSE LET e == enableQuota(w, F)
         IN IF e.err /= OK THEN e ELSE subvolLimitQgroup(e.w, dir, size, F)

\* the two checks of the size at the head of Driver.setStorageSize
sizeCheck(w, size) ==
    IF size = 0 THEN "invalid_size"
    ELSE IF w.ms > 0 /\ size < w.ms THEN "below_min"
    ELSE OK

\* setStorageSize going on to the limit whatever enableQuota returned
setStorageSize_IgnoreEnable(w, dir, size, F) ==
    IF sizeCheck(w, size) /= OK THEN Ret(w, sizeCheck(w, size))
    ELSE subvolLimitQgroup(enableQuota(w, F).w, dir, size, F)

\* Driver.setStorageSize(dir, driver)
setStorageSize(w, dir, size, F) ==
    IF sizeCheck(w, size) /= OK THEN Ret(w, sizeCheck(w, size))
    ELSE LET e == enableQuota(w, F)
         IN IF e.err /= OK THEN e ELSE subvolLimitQgroup(e.w, dir, size, F)

\* MkdirAllAndChown of the quotas directory and WriteFile of the record
writeQuota(w, id, size, F) ==
    IF "mkquotas" \in F THEN Ret(Issue(w, "mkdir_quotas", <<>>, FALSE), "mkquotas")
    ELSE IF "write" \in F THEN Ret(Issue(w, "write_quota", <<id>>, FALSE), "write")
    ELSE Ret([Issue(w, "write_quota", <<id>>, TRUE)
                 EXCEPT !.qf = Put1(@, id, Sprint(size))], OK)

\* the "size" branch of Driver.Create
createQuota(w, id, storageOpt, order, F) ==
    LET o == parseStorageOpt(storageOpt, order)
        s == setStorageSize(w, <<id>>, o.size, F)
    IN IF o.err /= OK THEN Ret(w, o.err)
       ELSE IF s.err /= OK THEN s
       ELSE writeQuota(s.w, id, o.size, F)

\* the create-or-snapshot step creating a fresh subvolume when the parent
\* is not there
createSubvolume_FallBack(w, id, parent, F) ==
    IF parent = NoParent THEN subvolCreate(w, <<>>, id, F)
    ELSE IF <<parent>> \notin DOMAIN w.sv THEN subvolCreate(w, <<>>, id, F)
    ELSE IF ~w.sv[<<parent>>].dir THEN Ret(w, "ENOTDIR")
    ELSE subvolSnapshot(w, <<parent>>, <<>>, id, F)

\* the create-or-snapshot step of Driver.Create
createSubvolume(w, id, parent, F) ==
    IF parent = NoParent THEN subvolCreate(w, <<>>, id, F)
    ELSE IF <<parent>> \notin DOMAIN w.sv THEN Ret(w, "ENOENT")
    ELSE IF ~w.sv[<<parent>>].dir THEN Ret(w, "ENOTDIR")
    ELSE subvolSnapshot(w, <<parent>>, <<>>, id, F)

\* the tail of Driver.Create: chown under a remapped root, then the relabel
createFinish(w, id, F) ==
    IF w.idm /= 0 /\ "chown" \in F THEN Ret(Issue(w, "chown", <<id>>, FALSE), "chown")
    ELSE LET c == IF w.idm /= 0 THEN Issue(w, "chown", <<id>>, TRUE) ELSE w
         IN IF "relabel" \in F THEN Ret(Issue(c, "relabel", <<id>>, FALSE), "relabel")
            ELSE Ret(Issue(c, "relabel", <<id>>, TRUE), OK)

\* Create removing the subvolume again when the size branch fails
Create_RollBack(w, id, parent, storageOpt, order, F) ==
    LET c == createSubvolume(w, id, parent, F)
        q == IF "size" \in DOMAIN storageOpt
             THEN createQuota(c.w, id, storageOpt, order, F)
             ELSE Ret(c.w, OK)
    IN IF "mkdir" \in F THEN Ret(Issue(w, "mkdir_subvolumes", <<>>, FALSE), "mkdir")
       ELSE IF c.err /= OK THEN c
       ELSE IF q.err /= OK
       THEN Ret([q.w EXCEPT !.sv = Drop(@, Tree(q.w.sv, <<id>>))], q.err)
       ELSE createFinish(q.w, id, F)

\* Driver.Create(id, parent, opts); order is the iteration order of opts.StorageOpt
Create(w, id, parent, storageOpt, order, F) ==
    LET c == createSubvolume(w, id, parent, F)
        q == IF "size" \in DOMAIN storageOpt
             THEN createQuota(c.w, id, storageOpt, order, F)
             ELSE Ret(c.w, OK)
    IN IF "mkdir" \in F THEN Ret(Issue(w, "mkdir_subvolumes", <<>>, FALSE), "mkdir")
       ELSE IF c.err /= OK THEN c
       ELSE IF q.err /= OK THEN q
       ELSE createFinish(q.w, id, F)

\* containerfs.EnsureRemoveAll(dir): nothing to do for a missing directory
EnsureRemoveAll(w, dir, F) ==
    IF dir \notin DOMAIN w.sv THEN Ret(Issue(w, "remove_all", dir, TRUE), OK)
    ELSE IF "rmall" \in F THEN Ret(Issue(w, "remove_all", dir, FALSE), "rmall")
    ELSE Ret([Issue(w, "remove_all", dir, TRUE)
                 EXCEPT !.sv = Drop(@, Tree(w.sv, dir)),
                        !.lim = Drop(@, Tree(w.sv, dir))], OK)

\* the quota record step removing the whole quotas directory
removeQuotaFile_All(w, id, F) ==
    IF id \notin DOMAIN w.qf THEN Ret(w, OK)
    ELSE IF "rmrecord" \in F THEN Ret(Issue(w, "remove_quota", <<id>>, FALSE), "rmrecord")
    ELSE Ret([Issue(w, "remove_quota", <<id>>, TRUE) EXCEPT !.qf = <<>>], OK)

\* the quota record step of Driver.Remove
removeQuotaFile(w, id, F) ==
    IF id \notin DOMAIN w.qf THEN Ret(w, OK)
    ELSE IF "rmrecord" \in F THEN Ret(Issue(w, "remove_quota", <<id>>, FALSE), "rmrecord")
    ELSE Ret([Issue(w, "remove_quota", <<id>>, TRUE) EXCEPT !.qf = Drop(@, {id})], OK)

\* Remove returning the error of a failed delete whatever the quota state
removeSubvolume_AlwaysPropagate(w, id, F) ==
    LET d == subvolDelete(w, <<>>, id, w.qe, F)
        e == EnsureRemoveAll(d.w, <<id>>, F)
    IN IF d.err /= OK THEN d
       ELSE IF e.err /= OK THEN e
       ELSE subvolRescanQuota(e.w, F)

\* Remove with the rescan issued before the forced removal of the directory
removeSubvolume_RescanFirst(w, id, F) ==
    LET d == subvolDelete(w, <<>>, id, w.qe, F)
        s == subvolRescanQuota(d.w, F)
        e == EnsureRemoveAll(s.w, <<id>>, F)
    IN IF d.err /= OK /\ d.w.qe THEN d
       ELSE IF s.err /= OK THEN s
       ELSE e

\* Driver.Remove from the call of subvolDelete on; the error of a failed
\* delete keeps its class when it is wrapped with the hint for user namespaces
removeSubvolume(w, id, F) ==
    LET d == subvolDelete(w, <<>>, id, w.qe, F)
        e == EnsureRemoveAll(d.w, <<id>>, F)
    IN IF d.err /= OK /\ d.w.qe THEN d
       ELSE IF e.err /= OK THEN e
       ELSE subvolRescanQuota(e.w, F)

\* Remove putting the quota record back when the delete of the subvolume fails
Remove_RestoreRecord(w, id, F) ==
    LET f == removeQuotaFile(w, id, F)
        d == removeSubvolume(updateQuotaStatus(f.w, F), id, F)
    IN IF <<id>> \notin DOMAIN w.sv THEN Ret(w, "ENOENT")
       ELSE IF f.err /= OK THEN f
       ELSE IF d.err /= OK THEN Ret([d.w EXCEPT !.qf = w.qf], d.err)
       ELSE d

\* Remove deleting the quota record after the subvolume
Remove_RecordLast(w, id, F) ==
    LET d == removeSubvolume(updateQuotaStatus(w, F), id, F)
    IN IF <<id>> \notin DOMAIN w.sv THEN Ret(w, "ENOENT")
       ELSE IF d.err /= OK THEN d
       ELSE removeQuotaFile(d.w, id, F)

\* Remove without the stat of the layer directory
Remove_NoStat(w, id, F) ==
    LET f == removeQuotaFile(w, id, F)
    IN IF f.err /= OK THEN f
       ELSE removeSubvolume(updateQuotaStatus(f.w, F), id, F)

\* Driver.Remove(id)
Remove(w, id, F) ==
    LET f == removeQuotaFile(w, id, F)
    IN IF <<id>> \notin DOMAIN w.sv THEN Ret(w, "ENOENT")
       ELSE IF f.err /= OK THEN f
       ELSE removeSubvolume(updateQuotaStatus(f.w, F), id, F)

\* the quota branch of Get with > in place of >=
reapplyQuota_Strict(w, id, F) ==
    LET size == ParseUint(w.qf[id])
        e == enableQuota(w, F)
    IN IF size.err = OK /\ size.n > w.ms
       THEN IF e.err /= OK THEN e ELSE subvolLimitQgroup(e.w, <<id>>, size.n, F)
       ELSE Ret(w, OK)

\* the quota branch of Driver.Get
reapplyQuota(w, id, F) ==
    LET size == ParseUint(w.qf[id])
        e == enableQuota(w, F)
    IN IF size.err = OK /\ size.n >= w.ms
       THEN IF e.err /= OK THEN e ELSE subvolLimitQgroup(e.w, <<id>>, size.n, F)
       ELSE Ret(w, OK)

\* Driver.Get(id, mountLabel): the error and the returned path
Get(w, id, F) ==
    LET q == IF id \in DOMAIN w.qf THEN reapplyQuota(w, id, F) ELSE Ret(w, OK)
    IN IF <<id>> \notin DOMAIN w.sv THEN [w |-> w, err |-> "ENOENT", path |-> <<>>]
       ELSE IF ~w.sv[<<id>>].dir THEN [w |-> w, err |-> "ENOTDIR", path |-> <<>>]
       ELSE IF q.err /= OK THEN [w |-> q.w, err |-> q.err, path |-> <<>>]
       ELSE [w |-> q.w, err |-> OK, path |-> <<id>>]

\* Put running the quota probe
Put_Probe(w, id) == Ret(updateQuotaStatus(w, {}), OK)

\* Driver.Put(id)
Put(w, id) == Ret(w, OK)

\* Driver.Exists(id)
Exists(w, id) == <<id>> \in DOMAIN w.sv

\* parseOptions(opt): the options and userDiskQuota; an option is a key and a
\* value already split by graphdriver.ParseStorageOptKeyValue
RECURSIVE parseOptionsFrom(_, _, _)
parseOptionsFrom(opt, ms, userDiskQuota) ==
    IF opt = <<>> THEN [err |-> OK, minSpace |-> ms, userDiskQuota |-> userDiskQuota]
    ELSE IF ToLower(Head(opt).key) = "btrfs.min_space" THEN
        LET v == RAMInBytes(Head(opt).val)
        IN IF v.err /= OK
           THEN [err |-> v.err, minSpace |-> ms, userDiskQuota |-> userDiskQuota]
           ELSE parseOptionsFrom(Tail(opt), v.n, TRUE)
    ELSE [err |-> "unknown_option", minSpace |-> ms, userDiskQuota |-> userDiskQuota]

parseOptions(opt) == parseOptionsFrom(opt, 0, FALSE)

\* Init(home, options, idMap) on a file system whose quota state is kq
NewDriver(kq, options, idm, F) ==
    LET o == parseOptions(options)
        w == World(<<>>, <<>>, <<>>, kq, FALSE, "new", o.minSpace, idm)
    IN IF "prerequisites" \in F THEN Ret(w, "prerequisites")
       ELSE IF o.err /= OK THEN Ret(w, o.err)
       ELSE IF "mount" \in F THEN Ret(w, "mount")
       ELSE IF o.userDiskQuota THEN enableQuota(w, F)
       ELSE Ret(w, OK)

----------------------------------------------------------------------------
\* Inputs of the calls.

\* option values: not a size, or the decimal text of a byte count
OptVals == {<<"x">>} \cup {Sprint(n) : n \in 0..MaxSize}

\* per-layer storage options: "size" with any value, a differently cased
\* size key and an unknown key
StorageOptKeys == {"size", "SIZE", "other"}
StorageOpts ==
    UNION {{so \in [D -> OptVals] :
               /\ "SIZE" \in D => so["SIZE"] = Sprint(MaxSize)
               /\ "other" \in D => so["other"] = <<"x">>} :
           D \in {E \in SUBSET StorageOptKeys : Cardinality(E) <= MaxOpts}}

\* the orders in which a map can yield its keys
Orders(S) ==
    {o \in UNION {[1..n -> S] : n \in {Cardinality(S)}} :
        \A i, j \in DOMAIN o : i /= j => o[i] /= o[j]}
\* the order matters to Create only when parseStorageOpt runs
KeyOrders(so) ==
    IF "size" \in DOMAIN so THEN Orders(DOMAIN so)
    ELSE {CHOOSE o \in Orders(DOMAIN so) : TRUE}

\* driver options
DriverOptKeys == {"btrfs.min_space", "BTRFS.MIN_SPACE", "btrfs.other"}
DriverOpt == [key : DriverOptKeys, val : {<<"x">>, Sprint(MaxSize)}]
DriverOptions == UNION {[1..n -> DriverOpt] : n \in 0..MaxOpts}

\* the storage options of the plain calls: none, or a "size" alone
SizeOpts == {so \in StorageOpts : DOMAIN so \subseteq {"size"}}

\* The system calls that fail during one call.  A call ends at its first
\* failing step, so one failing step is drawn, together with the failures the
\* code absorbs; a step the call cannot reach in the state is not drawn.
InitFaults == SUBSET {"prerequisites", "mount", "status", "enable"}

ProbeFaults(w) == IF w.once = "new" THEN SUBSET {"status"} ELSE {{}}

CreateFaults(w, parent, so) ==
    LET aborts == {"mkdir", "relabel"}
                  \cup (IF parent = NoParent THEN {"create"} ELSE {"snapshot"})
                  \cup (IF "size" \in DOMAIN so
                        THEN {"enable", "limit", "mkquotas", "write"} ELSE {})
                  \cup (IF w.idm /= 0 THEN {"chown"} ELSE {})
    IN {A \cup S : A \in {{}} \cup {{a} : a \in aborts},
                   S \in IF "size" \in DOMAIN so THEN ProbeFaults(w) ELSE {{}}}

GetFaults(w, id) ==
    IF id \in DOMAIN w.qf
    THEN {A \cup S : A \in {{}, {"enable"}, {"limit"}}, S \in ProbeFaults(w)}
    ELSE {{}}

\* Remove: the delete fails at a nested subvolume or at the layer; the forced
\* removal is reached after a failed delete without quota, the rescan and the
\* removal of the quota groups with quota
RemoveFaultsWith(w, id, S) ==
    LET nested == \E q \in Tree(w.sv, <<id>>) : q /= <<id>> /\ isSubvolume(w.sv, q).sv
        quota == updateQuotaStatus(w, S).qe
        deletes == {{"destroy"}} \cup (IF nested THEN {{"destroy_nested"}} ELSE {})
    IN (IF id \in DOMAIN w.qf THEN {{"rmrecord"}} ELSE {})
       \cup {B \cup C \cup S :
               B \in IF quota THEN {{}, {"lookup"}, {"qgroup_remove"}} ELSE {{}},
               C \in {{}} \cup deletes
                     \cup (IF quota THEN {{"rescan"}}
                           ELSE {D \cup {"rmall"} : D \in deletes})}

RemoveFaults(w, id) == UNION {RemoveFaultsWith(w, id, S) : S \in ProbeFaults(w)}

----------------------------------------------------------------------------
\* The driver as a state machine: one action per call.

W == World(subvolumes, quotas, limits, fsQuota, quotaEnabled, once, minSpace, idMap)

Store(w) ==
    /\ subvolumes' = w.sv
    /\ quotas' = w.qf
    /\ limits' = w.lim
    /\ fsQuota' = w.kq
    /\ quotaEnabled' = w.qe
    /\ once' = w.once
    /\ minSpace' = w.ms
    /\ idMap' = w.idm

Call(op, id, err, path, found) ==
    [op |-> op, id |-> id, err |-> err, path |-> path, found |-> found]

concVars == <<calls, pc, loc, world0>>

Init ==
    /\ subvolumes = <<>>
    /\ quotas = <<>>
    /\ limits = <<>>
    /\ fsQuota \in BOOLEAN
    /\ quotaEnabled = FALSE
    /\ once = "new"
    /\ minSpace = 0
    /\ idMap = 0
    /\ driver = "none"
    /\ created = {}
    /\ last = Call("none", 0, OK, <<>>, FALSE)
    /\ calls = <<>>
    /\ pc = <<>>
    /\ loc = <<>>
    /\ world0 = <<>>

InitCall(opts, idms, faults) ==
    /\ driver = "none"
    /\ \E options \in opts, idm \in idms, F \in faults :
         LET r == NewDriver(fsQuota, options, idm, F)
         IN /\ Store([r.w EXCEPT !.tr = <<>>])
            /\ driver' = IF r.err = OK THEN "ready" ELSE "failed"
            /\ last' = Call("Init", 0, r.err, <<>>, FALSE)
    /\ UNCHANGED <<created, concVars>>

InitDriver == InitCall(DriverOptions, {0, 1}, InitFaults)

\* construction without a fault, without options or with a min_space
PlainDriverOptions ==
    {<<>>, <<[key |-> "btrfs.min_space", val |-> Sprint(MaxSize)]>>}
InitDriverPlain == InitCall(PlainDriverOptions, {0}, {{}})

\* Create with the failures of its steps (faulty) or without any
CreateCall(parents, opts, faulty) ==
    /\ driver = "ready"
    /\ \E id \in Ids, parent \in parents, so \in opts :
         \E order \in KeyOrders(so),
            F \in (IF faulty THEN CreateFaults(W, parent, so) ELSE {{}}) :
           LET r == Create(W, id, parent, so, order, F)
           IN /\ Store(r.w)
              /\ created' = IF r.err = OK THEN created \cup {id} ELSE created
              /\ last' = Call("Create", id, r.err, <<>>, FALSE)
    /\ UNCHANGED <<driver, concVars>>

Parents == {NoParent} \cup Ids

DoCreate == CreateCall(Parents, SizeOpts, TRUE)

DoRemove ==
    /\ driver = "ready"
    /\ \E id \in Ids : \E F \in RemoveFaults(W, id) :
         LET r == Remove(W, id, F)
         IN /\ Store(r.w)
            /\ created' = created \ {id}
            /\ last' = Call("Remove", id, r.err, <<>>, FALSE)
    /\ UNCHANGED <<driver, concVars>>

DoGet ==
    /\ driver = "ready"
    /\ \E id \in Ids : \E F \in GetFaults(W, id) :
         LET r == Get(W, id, F)
         IN /\ Store(r.w)
            /\ last' = Call("Get", id, r.err, r.path, FALSE)
    /\ UNCHANGED <<driver, created, concVars>>

DoPut ==
    /\ driver = "ready"
    /\ \E id \in Ids :
         LET r == Put(W, id)
         IN /\ Store(r.w)
            /\ last' = Call("Put", id, r.err, <<>>, FALSE)
    /\ UNCHANGED <<driver, created, concVars>>

DoExists ==
    /\ driver = "ready"
    /\ \E id \in Ids :
         /\ last' = Call("Exists", id, OK, <<>>, Exists(W, id))
         /\ UNCHANGED <<subvolumes, quotas, limits, fsQuota, quotaEnabled, once,
                        minSpace, idMap>>
    /\ UNCHANGED <<driver, created, concVars>>

Next == InitDriver \/ DoCreate \/ DoRemove \/ DoGet \/ DoPut \/ DoExists

Spec == Init /\ [][Next]_vars

----------------------------------------------------------------------------
\* External tooling acting on the file system beside the driver.

External == Call("external", 0, OK, <<>>, FALSE)

\* a subvolume, directory or file is created inside a layer
ExtNest ==
    /\ driver = "ready"
    /\ Cardinality({q \in DOMAIN subvolumes : Len(q) > 1}) < MaxNested
    /\ \E p \in DOMAIN subvolumes, name \in Names,
          e \in {SubvolEntry, DirEntry, FileEntry} :
         /\ subvolumes[p].dir
         /\ Append(p, name) \notin DOMAIN subvolumes
         /\ subvolumes' = Put1(subvolumes, Append(p, name), e)
    /\ last' = External
    /\ UNCHANGED <<quotas, limits, fsQuota, quotaEnabled, once, minSpace, idMap,
                   driver, created, concVars>>

\* a layer's subvolume is deleted behind the driver's back
ExtDeleteSubvolume ==
    /\ driver = "ready"
    /\ \E id \in Ids :
         /\ <<id>> \in DOMAIN subvolumes
         /\ subvolumes' = Drop(subvolumes, Tree(subvolumes, <<id>>))
         /\ limits' = Drop(limits, Tree(subvolumes, <<id>>))
    /\ last' = External
    /\ UNCHANGED <<quotas, fsQuota, quotaEnabled, once, minSpace, idMap,
                   driver, created, concVars>>

\* the limit of a layer's quota group is reset
ExtResetLimit ==
    /\ driver = "ready"
    /\ \E id \in Ids :
         /\ <<id>> \in DOMAIN limits
         /\ limits' = Drop(limits, {<<id>>})
    /\ last' = External
    /\ UNCHANGED <<subvolumes, quotas, fsQuota, quotaEnabled, once, minSpace, idMap,
                   driver, created, concVars>>

\* a quota record is written: by a driver of an earlier run with another
\* min_space, or by hand
ExtWriteQuota ==
    /\ driver = "ready"
    /\ \E id \in Ids, content \in OptVals :
         /\ <<id>> \in DOMAIN subvolumes
         /\ quotas' = Put1(quotas, id, content)
    /\ last' = External
    /\ UNCHANGED <<subvolumes, limits, fsQuota, quotaEnabled, once, minSpace, idMap,
                   driver, created, concVars>>

DoCreatePlain == CreateCall({NoParent}, {<<>>}, FALSE)
DoCreateSize == CreateCall({NoParent}, SizeOpts, FALSE)

NextNested == InitDriverPlain \/ DoCreatePlain \/ DoRemove \/ ExtNest

SpecNested == Init /\ [][NextNested]_vars

NextExt ==
    \/ InitDriverPlain \/ DoCreateSize \/ DoRemove \/ DoGet
    \/ ExtDeleteSubvolume \/ ExtResetLimit \/ ExtWriteQuota

SpecExt == Init /\ [][NextExt]_vars

DoCreateOpts == CreateCall(Parents, StorageOpts, FALSE)

NextOpts == InitDriver \/ DoCreateOpts \/ DoRemove

SpecOpts == Init /\ [][NextOpts]_vars

----------------------------------------------------------------------------
\* Calls in flight at once on different layers of one Driver.  A call is a
\* thread of steps; a step is one access to the Driver's shared state (the
\* once, a read or the write of quotaEnabled) or the file-system operations
\* between two such accesses, which touch the call's own layer and the quota
\* state of the file system.
MaxCalls == 2

\* the failures drawn for a call in flight
ConcCalls(id) ==
    {[op |-> "Create", id |-> id, so |-> <<>>, order |-> <<>>, F |-> {}]}
    \cup {[op |-> "Create", id |-> id, so |-> [k \in {"size"} |-> Sprint(MaxSize)],
           order |-> <<"size">>, F |-> F] : F \in {{}, {"enable"}}}
    \cup {[op |-> "Remove", id |-> id, so |-> <<>>, order |-> <<>>, F |-> F] :
             F \in SUBSET {"destroy", "rescan"}}
    \cup {[op |-> "Get", id |-> id, so |-> <<>>, order |-> <<>>, F |-> F] :
             F \in {{}, {"limit"}}}

\* the locals of a call: the value it read from quotaEnabled, the error of
\* subvolDelete, the size it applies, the error and path it returns, the
\* number of times it ran qgroupStatus, and whether its enable ioctl succeeded
Locals0 ==
    [q |-> FALSE, derr |-> OK, size |-> 0, err |-> OK, path |-> <<>>, probes |-> 0,
     enabled |-> FALSE]

\* the layers' setting before the calls start
SetUp ==
    /\ calls = <<>>
    /\ \/ InitDriverPlain
       \/ DoCreatePlain
       \/ /\ driver = "ready"
          /\ \E id \in Ids :
               /\ <<id>> \in DOMAIN subvolumes
               /\ quotas' = Put1(quotas, id, Sprint(MaxSize))
          /\ last' = External
          /\ UNCHANGED <<subvolumes, limits, fsQuota, quotaEnabled, once, minSpace,
                         idMap, driver, created, concVars>>
       \/ /\ driver = "ready"
          /\ \E id \in Ids :
               LET r == Remove(W, id, {})
               IN /\ Store(r.w)
                  /\ created' = created \ {id}
                  /\ last' = Call("Remove", id, r.err, <<>>, FALSE)
          /\ UNCHANGED <<driver, concVars>>

\* the engine starts calls on different layers
Start ==
    /\ driver = "ready"
    /\ calls = <<>>
    /\ \E n \in 1..MaxCalls : \E cs \in [1..n -> UNION {ConcCalls(id) : id \in Ids}] :
         /\ \A i, j \in 1..n : i < j => cs[i].id < cs[j].id
         /\ calls' = cs
         /\ pc' = [i \in 1..n |-> "start"]
         /\ loc' = [i \in 1..n |-> Locals0]
    /\ world0' = W
    /\ UNCHANGED <<subvolumes, quotas, limits, fsQuota, quotaEnabled, once, minSpace,
                   idMap, driver, created, last>>

\* call i moves to a label with new locals in a new state of the world
Goto(i, w, label, l) ==
    /\ Store(w)
    /\ pc' = [pc EXCEPT ![i] = label]
    /\ loc' = [loc EXCEPT ![i] = l]
    /\ UNCHANGED <<calls, world0, driver, created, last>>

\* call i returns
Return(i, w, err, path) ==
    Goto(i, w, "done", [loc[i] EXCEPT !.err = err, !.path = path])

\* d.once.Do in Driver.updateQuotaStatus: the first caller runs the function
\* while the once is held, a caller that finds the once held waits, a caller
\* that finds it done goes on
OnceDo(i) ==
    LET F == calls[i].F
        l == loc[i]
        r == probeQuota(W, F)
    IN IF pc[i] = "probe" THEN
           /\ once /= "running"
           /\ IF once = "new" THEN Goto(i, [W EXCEPT !.once = "running"], "probing", l)
              ELSE Goto(i, W, "read", l)
       ELSE /\ pc[i] = "probing"
            /\ Goto(i, [r EXCEPT !.once = "done"], "read",
                    [l EXCEPT !.probes = @ + Cardinality({k \in DOMAIN r.tr :
                                                  r.tr[k].op = "qgroup_status"})])

\* Driver.Remove(id), lines 672-707, step by step
RemoveStep(i) ==
    LET id == calls[i].id
        F == calls[i].F
        l == loc[i]
        f == removeQuotaFile(W, id, F)
        d == subvolDelete(W, <<>>, id, l.q, F)
        e == EnsureRemoveAll(W, <<id>>, F)
        r == subvolRescanQuota(W, F)
    IN /\ calls[i].op = "Remove"
       /\ CASE pc[i] = "start" ->
                 IF <<id>> \notin DOMAIN subvolumes THEN Return(i, W, "ENOENT", <<>>)
                 ELSE IF f.err /= OK THEN Return(i, f.w, f.err, <<>>)
                 ELSE Goto(i, f.w, "probe", l)
            [] pc[i] \in {"probe", "probing"} -> OnceDo(i)
            \* the read of d.quotaEnabled for the argument of subvolDelete
            [] pc[i] = "read" -> Goto(i, W, "delete", [l EXCEPT !.q = quotaEnabled])
            [] pc[i] = "delete" ->
                 Goto(i, d.w, IF d.err /= OK THEN "check" ELSE "rmall",
                      [l EXCEPT !.derr = d.err])
            \* the read of d.quotaEnabled after a failed subvolDelete
            [] pc[i] = "check" ->
                 IF quotaEnabled THEN Return(i, W, l.derr, <<>>)
                 ELSE Goto(i, W, "rmall", l)
            [] pc[i] = "rmall" ->
                 IF e.err /= OK THEN Return(i, e.w, e.err, <<>>)
                 ELSE Goto(i, e.w, "rescan", l)
            \* subvolRescanQuota: the once, the read of d.quotaEnabled, the rescan
            [] pc[i] = "rescan" -> Return(i, r.w, r.err, <<>>)
            [] OTHER -> FALSE

\* the steps of enableQuota without the write of the flag after the ioctl
QuotaStep_NoFlag(i) ==
    LET id == calls[i].id
        F == calls[i].F
        l == loc[i]
        c == quotaCtlEnable(W, F)
        m == subvolLimitQgroup(W, <<id>>, l.size, F)
        q == writeQuota(W, id, l.size, F)
    IN /\ calls[i].op \in {"Create", "Get"}
       /\ CASE pc[i] \in {"probe", "probing"} -> OnceDo(i)
            \* the read of d.quotaEnabled in enableQuota
            [] pc[i] = "read" -> Goto(i, W, IF quotaEnabled THEN "limit" ELSE "enable", l)
            \* the ioctl of enableQuota; the flag is written in the next step
            [] pc[i] = "enable" ->
                 IF c.err /= OK THEN Return(i, c.w, c.err, <<>>)
                 ELSE Goto(i, [c.w EXCEPT !.qe = quotaEnabled], "setflag",
                           [l EXCEPT !.enabled = TRUE])
            \* d.quotaEnabled = true
            [] pc[i] = "setflag" -> Goto(i, W, "limit", l)
            [] pc[i] = "limit" ->
                 IF m.err /= OK THEN Return(i, m.w, m.err, <<>>)
                 ELSE IF calls[i].op = "Get" THEN Return(i, m.w, OK, <<id>>)
                 ELSE Goto(i, m.w, "record", l)
            [] pc[i] = "record" ->
                 IF q.err /= OK THEN Return(i, q.w, q.err, <<>>)
                 ELSE Goto(i, q.w, "finish", l)
            [] OTHER -> FALSE

\* Driver.enableQuota and subvolLimitQgroup in Create and Get, step by step
QuotaStep(i) ==
    LET id == calls[i].id
        F == calls[i].F
        l == loc[i]
        c == quotaCtlEnable(W, F)
        m == subvolLimitQgroup(W, <<id>>, l.size, F)
        q == writeQuota(W, id, l.size, F)
    IN /\ calls[i].op \in {"Create", "Get"}
       /\ CASE pc[i] \in {"probe", "probing"} -> OnceDo(i)
            \* the read of d.quotaEnabled in enableQuota
            [] pc[i] = "read" -> Goto(i, W, IF quotaEnabled THEN "limit" ELSE "enable", l)
            \* the ioctl of enableQuota; the flag is written in the next step
            [] pc[i] = "enable" ->
                 IF c.err /= OK THEN Return(i, c.w, c.err, <<>>)
                 ELSE Goto(i, [c.w EXCEPT !.qe = quotaEnabled], "setflag",
                           [l EXCEPT !.enabled = TRUE])
            \* d.quotaEnabled = true
            [] pc[i] = "setflag" -> Goto(i, [W EXCEPT !.qe = TRUE], "limit", l)
            [] pc[i] = "limit" ->
                 IF m.err /= OK THEN Return(i, m.w, m.err, <<>>)
                 ELSE IF calls[i].op = "Get" THEN Return(i, m.w, OK, <<id>>)
                 ELSE Goto(i, m.w, "record", l)
            [] pc[i] = "record" ->
                 IF q.err /= OK THEN Return(i, q.w, q.err, <<>>)
                 ELSE Goto(i, q.w, "finish", l)
            [] OTHER -> FALSE

\* Driver.Create(id, "", opts), lines 573-635, up to the quota and after it
CreateStep(i) ==
    LET id == calls[i].id
        F == calls[i].F
        l == loc[i]
        c == createSubvolume(W, id, NoParent, F)
        o == parseStorageOpt(calls[i].so, calls[i].order)
        t == createFinish(W, id, F)
    IN /\ calls[i].op = "Create"
       /\ CASE pc[i] = "start" ->
                 IF "mkdir" \in F THEN Return(i, W, "mkdir", <<>>)
                 ELSE IF c.err /= OK THEN Return(i, c.w, c.err, <<>>)
                 ELSE IF "size" \notin DOMAIN calls[i].so THEN Goto(i, c.w, "finish", l)
                 ELSE IF o.err /= OK THEN Return(i, c.w, o.err, <<>>)
                 ELSE IF sizeCheck(W, o.size) /= OK
                      THEN Return(i, c.w, sizeCheck(W, o.size), <<>>)
                 ELSE Goto(i, c.w, "probe", [l EXCEPT !.size = o.size])
            [] pc[i] = "finish" -> Return(i, t.w, t.err, <<>>)
            [] OTHER -> FALSE

\* Driver.Get(id, mountLabel), lines 710-733, up to the quota
GetStep(i) ==
    LET id == calls[i].id
        l == loc[i]
        size == ParseUint(quotas[id])
    IN /\ calls[i].op = "Get"
       /\ pc[i] = "start"
       /\ IF <<id>> \notin DOMAIN subvolumes THEN Return(i, W, "ENOENT", <<>>)
          ELSE IF ~subvolumes[<<id>>].dir THEN Return(i, W, "ENOTDIR", <<>>)
          ELSE IF id \in DOMAIN quotas /\ size.err = OK /\ size.n >= minSpace
               THEN Goto(i, W, "probe", [l EXCEPT !.size = size.n])
          ELSE Return(i, W, OK, <<id>>)

NextConc ==
    \/ SetUp
    \/ Start
    \/ \E i \in DOMAIN calls : RemoveStep(i)
    \/ \E i \in DOMAIN calls : CreateStep(i)
    \/ \E i \in DOMAIN calls : QuotaStep(i)
    \/ \E i \in DOMAIN calls : GetStep(i)

SpecConc == Init /\ [][NextConc]_vars

\* the same call run on its own, as the sequential facade does it
RunCall(w, c) ==
    CASE c.op = "Create" ->
           [w |-> Create(w, c.id, NoParent, c.so, c.order, c.F).w,
            err |-> Create(w, c.id, NoParent, c.so, c.order, c.F).err, path |-> <<>>]
      [] c.op = "Remove" ->
           [w |-> Remove(w, c.id, c.F).w, err |-> Remove(w, c.id, c.F).err,
            path |-> <<>>]
      [] c.op = "Get" -> Get(w, c.id, c.F)

\* the calls run one at a time in the order o: the final state and, per call,
\* the error and the path it returns
RECURSIVE RunSeq(_, _, _)
RunSeq(w, o, res) ==
    IF o = <<>> THEN [w |-> w, res |-> res]
    ELSE LET r == RunCall(w, calls[Head(o)])
         IN RunSeq(r.w, Tail(o),
                   [res EXCEPT ![Head(o)] = [err |-> r.err, path |-> r.path]])

----------------------------------------------------------------------------
\* The name of a subvolume on its way into the request structure of a control
\* operation.  A name is given by its length in bytes; a binding in flight is
\* a call with the index of its copy loop and the number of bytes it has put
\* into the structure's name field.

\* struct btrfs_ioctl_vol_args holds char name[BTRFS_PATH_NAME_MAX + 1],
\* struct btrfs_ioctl_vol_args_v2 holds char name[BTRFS_SUBVOL_NAME_MAX + 1]
BTRFS_PATH_NAME_MAX == 4087
BTRFS_SUBVOL_NAME_MAX == 4039

NameBindings == {"subvolCreate", "subvolSnapshot", "subvolDelete"}
\* len(args.name) of the structure the binding fills
NameCapacity(op) ==
    IF op = "subvolSnapshot" THEN BTRFS_SUBVOL_NAME_MAX + 1 ELSE BTRFS_PATH_NAME_MAX + 1
\* short names and names around the two capacities
NameLens ==
    {0, 1, BTRFS_SUBVOL_NAME_MAX - 1, BTRFS_SUBVOL_NAME_MAX, BTRFS_SUBVOL_NAME_MAX + 1,
     BTRFS_PATH_NAME_MAX, BTRFS_PATH_NAME_MAX + 1, BTRFS_PATH_NAME_MAX + 2}

Min(a, b) == IF a < b THEN a ELSE b

\* a binding is called with a name
StartBinding ==
    /\ calls = <<>>
    /\ \E op \in NameBindings, n \in NameLens :
         calls' = <<[op |-> op, len |-> n]>>
    /\ pc' = <<"copy">>
    /\ loc' = <<[i |-> 0, copied |-> 0]>>
    /\ UNCHANGED <<subvolumes, quotas, limits, fsQuota, quotaEnabled, once, minSpace,
                   idMap, driver, created, last, world0>>

\* one iteration of `for i, c := range []byte(name) { args.name[i] = C.char(c) }`
\* in subvolCreate and subvolDelete: an index outside the array panics
CopyNameByte ==
    /\ calls /= <<>>
    /\ calls[1].op \in {"subvolCreate", "subvolDelete"}
    /\ pc[1] = "copy"
    /\ IF loc[1].i = calls[1].len THEN pc' = <<"ioctl">> /\ loc' = loc
       ELSE IF loc[1].i >= NameCapacity(calls[1].op) THEN pc' = <<"panic">> /\ loc' = loc
       ELSE /\ pc' = pc
            /\ loc' = <<[i |-> loc[1].i + 1, copied |-> loc[1].copied + 1]>>
    /\ UNCHANGED <<subvolumes, quotas, limits, fsQuota, quotaEnabled, once, minSpace,
                   idMap, driver, created, last, calls, world0>>

\* set_name_btrfs_ioctl_vol_args_v2 in subvolSnapshot:
\* snprintf(name, BTRFS_SUBVOL_NAME_MAX, "%s", value) writes at most
\* BTRFS_SUBVOL_NAME_MAX - 1 bytes of the name and a terminator
SetNameV2 ==
    /\ calls /= <<>>
    /\ calls[1].op = "subvolSnapshot"
    /\ pc[1] = "copy"
    /\ pc' = <<"ioctl">>
    /\ loc' = <<[i |-> loc[1].i,
                 copied |-> Min(calls[1].len, BTRFS_SUBVOL_NAME_MAX - 1)]>>
    /\ UNCHANGED <<subvolumes, quotas, limits, fsQuota, quotaEnabled, once, minSpace,
                   idMap, driver, created, last, calls, world0>>

\* the control operation is issued with the structure
IssueIoctl ==
    /\ calls /= <<>>
    /\ calls[1].op \in NameBindings
    /\ pc[1] = "ioctl"
    /\ pc' = <<"done">>
    /\ UNCHANGED <<subvolumes, quotas, limits, fsQuota, quotaEnabled, once, minSpace,
                   idMap, driver, created, last, calls, loc, world0>>

NextNames == StartBinding \/ CopyNameByte \/ SetNameV2 \/ IssueIoctl

SpecNames == Init /\ [][NextNames]_vars

----------------------------------------------------------------------------
\* Authorization of a request by the configured plugins (Ctx.AuthZRequest).
\* A request in flight is a call with the plugin list of its context, the
\* answer each plugin gives to this request and the outcome of reading its
\* body; its locals are the number of loop iterations completed, the plugins
\* consulted so far and the error to return.

MaxPlugins == 3

AuthzPlugins == {"authz-a", "authz-b", "authz-c"}
\* plugin lists of a context, in the configured order
PluginLists == UNION {[1..n -> AuthzPlugins] : n \in 0..MaxPlugins}
\* plugin.AuthZRequest returns (authRes, err): an error, or Allow true or false
Verdicts == {"allow", "deny", "error"}
\* the body is not drained ("none"), drained ("read") or fails to read ("error")
Bodies == {"none", "read", "error"}

NoError == [kind |-> "nil", plugin |-> ""]
BodyError == [kind |-> "body", plugin |-> ""]
\* fmt.Errorf("plugin %s failed with error: %s", plugin.Name(), err)
PluginFailed(p) == [kind |-> "failed", plugin |-> p]
newAuthorizationError(p) == [kind |-> "authorization", plugin |-> p]

\* a deny is recorded and the loop goes on to the next plugin
consultPlugin_KeepGoing(c, l) ==
    LET k == l.i + 1
        p == c.plugins[k]
        v == c.verdicts[k]
        seen == Append(l.consulted, p)
    IN IF v = "error"
       THEN [pc |-> "done", loc |-> [l EXCEPT !.consulted = seen, !.err = PluginFailed(p)]]
       ELSE IF v = "deny"
       THEN [pc |-> "plugins",
             loc |-> [l EXCEPT !.i = k, !.consulted = seen, !.err = newAuthorizationError(p)]]
       ELSE [pc |-> "plugins", loc |-> [l EXCEPT !.i = k, !.consulted = seen]]
\* one iteration of `for _, plugin := range ctx.plugins`
consultPlugin(c, l) ==
    LET k == l.i + 1
        p == c.plugins[k]
        v == c.verdicts[k]
        seen == Append(l.consulted, p)
    IN IF v = "error"
       THEN [pc |-> "done", loc |-> [l EXCEPT !.consulted = seen, !.err = PluginFailed(p)]]
       ELSE IF v = "deny"
       THEN [pc |-> "done",
             loc |-> [l EXCEPT !.consulted = seen, !.err = newAuthorizationError(p)]]
       ELSE [pc |-> "plugins", loc |-> [l EXCEPT !.i = k, !.consulted = seen]]

\* NewCtx and the arrival of the request
AuthZStart ==
    /\ calls = <<>>
    /\ \E ps \in PluginLists, body \in Bodies :
         \E vs \in [DOMAIN ps -> Verdicts] :
            calls' = <<[op |-> "AuthZRequest", plugins |-> ps, verdicts |-> vs,
                        body |-> body]>>
    /\ pc' = <<"drain">>
    /\ loc' = <<[i |-> 0, consulted |-> <<>>, err |-> NoError,
                 rverdicts |-> <<>>, rconsulted |-> <<>>, rerr |-> NoError,
                 flushed |-> FALSE]>>
    /\ UNCHANGED <<subvolumes, quotas, limits, fsQuota, quotaEnabled, once, minSpace,
                   idMap, driver, created, last, world0>>

\* the body is drained when it is to be sent; a read error is returned at once.
\* The headers are then written to a bytes.Buffer, whose Write returns no error.
AuthZDrain ==
    /\ calls /= <<>>
    /\ calls[1].op = "AuthZRequest"
    /\ pc[1] = "drain"
    /\ IF calls[1].body = "error"
       THEN pc' = <<"done">> /\ loc' = <<[loc[1] EXCEPT !.err = BodyError]>>
       ELSE pc' = <<"plugins">> /\ loc' = loc
    /\ UNCHANGED <<subvolumes, quotas, limits, fsQuota, quotaEnabled, once, minSpace,
                   idMap, driver, created, last, calls, world0>>

\* the plugin loop: the next plugin is consulted, or the loop is over and
\* AuthZRequest returns nil
AuthZPlugin ==
    /\ calls /= <<>>
    /\ calls[1].op = "AuthZRequest"
    /\ pc[1] = "plugins"
    /\ IF loc[1].i = Len(calls[1].plugins)
       THEN pc' = <<"done">> /\ loc' = loc
       ELSE LET r == consultPlugin(calls[1], loc[1])
            IN pc' = <<r.pc>> /\ loc' = <<r.loc>>
    /\ UNCHANGED <<subvolumes, quotas, limits, fsQuota, quotaEnabled, once, minSpace,
                   idMap, driver, created, last, calls, world0>>

\* a deny of the response is recorded and the loop goes on to the next plugin
consultResponse_KeepGoing(c, l) ==
    LET k == l.i + 1
        p == c.plugins[k]
        v == l.rverdicts[k]
        seen == Append(l.rconsulted, p)
    IN IF v = "error"
       THEN [pc |-> "rdone", loc |-> [l EXCEPT !.rconsulted = seen, !.rerr = PluginFailed(p)]]
       ELSE IF v = "deny"
       THEN [pc |-> "rplugins",
             loc |-> [l EXCEPT !.i = k, !.rconsulted = seen,
                               !.rerr = newAuthorizationError(p)]]
       ELSE [pc |-> "rplugins", loc |-> [l EXCEPT !.i = k, !.rconsulted = seen]]
\* one iteration of `for _, plugin := range ctx.plugins` in AuthZResponse
consultResponse(c, l) ==
    LET k == l.i + 1
        p == c.plugins[k]
        v == l.rverdicts[k]
        seen == Append(l.rconsulted, p)
    IN IF v = "error"
       THEN [pc |-> "rdone", loc |-> [l EXCEPT !.rconsulted = seen, !.rerr = PluginFailed(p)]]
       ELSE IF v = "deny"
       THEN [pc |-> "rdone",
             loc |-> [l EXCEPT !.rconsulted = seen, !.rerr = newAuthorizationError(p)]]
       ELSE [pc |-> "rplugins", loc |-> [l EXCEPT !.i = k, !.rconsulted = seen]]

\* the daemon has handled an authorized request and its buffered response is
\* handed to AuthZResponse; each plugin has its answer to the response
AuthZResponseStart ==
    /\ calls /= <<>>
    /\ calls[1].op = "AuthZRequest"
    /\ pc[1] = "done"
    /\ loc[1].err = NoError
    /\ \E vs \in [DOMAIN calls[1].plugins -> Verdicts] :
         loc' = <<[loc[1] EXCEPT !.i = 0, !.rverdicts = vs]>>
    /\ pc' = <<"rplugins">>
    /\ UNCHANGED <<subvolumes, quotas, limits, fsQuota, quotaEnabled, once, minSpace,
                   idMap, driver, created, last, calls, world0>>

\* the plugin loop of AuthZResponse: the next plugin is consulted, or the
\* loop is over, rm.FlushAll() is called and AuthZResponse returns nil
AuthZResponsePlugin ==
    /\ calls /= <<>>
    /\ calls[1].op = "AuthZRequest"
    /\ pc[1] = "rplugins"
    /\ IF loc[1].i = Len(calls[1].plugins)
       THEN pc' = <<"rdone">> /\ loc' = <<[loc[1] EXCEPT !.flushed = TRUE]>>
       ELSE LET r == consultResponse(calls[1], loc[1])
            IN pc' = <<r.pc>> /\ loc' = <<r.loc>>
    /\ UNCHANGED <<subvolumes, quotas, limits, fsQuota, quotaEnabled, once, minSpace,
                   idMap, driver, created, last, calls, world0>>

NextAuthZ ==
    AuthZStart \/ AuthZDrain \/ AuthZPlugin \/ AuthZResponseStart \/ AuthZResponsePlugin

SpecAuthZ == Init /\ [][NextAuthZ]_vars

----------------------------------------------------------------------------
\* The AppArmor profile of an exec process (Daemon.execSetPlatformOpt).  A
\* container is a call record with the host's AppArmor support, the
\* container's privileged flag and its custom profile; the execs started in
\* it are the records of loc, each with its own privileged flag and the
\* profile set on its process.

MaxExecs == 2

defaultAppArmorProfile == "docker-default"
unconfinedAppArmorProfile == "unconfined"
\* SecurityOptions.AppArmorProfile of a container: unset, or any profile name
AppArmorProfiles ==
    {"", "my-custom-profile", defaultAppArmorProfile, unconfinedAppArmorProfile}

\* the privileged flag of the container is looked at before its custom profile
execSetPlatformOpt_PrivilegedFirst(hostSupports, c, execPrivileged) ==
    IF ~hostSupports THEN ""
    ELSE IF c.privileged THEN unconfinedAppArmorProfile
    ELSE IF c.profile /= "" THEN c.profile
    ELSE defaultAppArmorProfile
\* p.ApparmorProfile after execSetPlatformOpt on a fresh process
execSetPlatformOpt(hostSupports, c, execPrivileged) ==
    IF ~hostSupports THEN ""
    ELSE IF c.profile /= "" THEN c.profile
    ELSE IF c.privileged THEN unconfinedAppArmorProfile
    ELSE defaultAppArmorProfile

\* a container is set up on a host
ContainerCreate ==
    /\ calls = <<>>
    /\ \E host \in BOOLEAN, priv \in BOOLEAN, prof \in AppArmorProfiles :
         calls' = <<[op |-> "container", host |-> host, privileged |-> priv,
                     profile |-> prof]>>
    /\ UNCHANGED <<subvolumes, quotas, limits, fsQuota, quotaEnabled, once, minSpace,
                   idMap, driver, created, last, pc, loc, world0>>

\* an exec, privileged or not, is prepared in the container
ExecCreate ==
    /\ calls /= <<>>
    /\ calls[1].op = "container"
    /\ Len(loc) < MaxExecs
    /\ \E execPrivileged \in BOOLEAN :
         loc' = Append(loc, [privileged |-> execPrivileged,
                             profile |-> execSetPlatformOpt(calls[1].host, calls[1],
                                                            execPrivileged)])
    /\ UNCHANGED <<subvolumes, quotas, limits, fsQuota, quotaEnabled, once, minSpace,
                   idMap, driver, created, last, calls, pc, world0>>

NextExec == ContainerCreate \/ ExecCreate

SpecExec == Init /\ [][NextExec]_vars

----------------------------------------------------------------------------
\* The headers handed to the plugins (headers).  A header set maps a key to
\* the list of its values, which may be empty; a call of headers ranges over
\* the keys in the order the map yields them and builds the flat map v.

MaxHeaders == 3

HeaderKeys ==
    {"Authorization", "authorization", "X-Registry-Auth", "x-registry-config",
     "Proxy-Authorization", "Content-Type"}
HeaderValues == {<<>>, <<"a">>, <<"a", "b">>}
HeaderSets ==
    UNION {[D -> HeaderValues] : D \in {E \in SUBSET HeaderKeys : Cardinality(E) <= MaxHeaders}}

\* Unicode case folding on the header keys of the model
Fold(k) ==
    CASE k = "Authorization" -> "authorization"
      [] k = "X-Registry-Auth" -> "x-registry-auth"
      [] k = "X-Registry-Config" -> "x-registry-config"
      [] k = "Proxy-Authorization" -> "proxy-authorization"
      [] k = "Content-Type" -> "content-type"
      [] OTHER -> k
\* strings.EqualFold
EqualFold(a, b) == Fold(a) = Fold(b)

RECURSIVE assignValues(_, _, _)
\* `for _, val := range values { v[k] = val }`
assignValues(v, k, values) ==
    IF values = <<>> THEN v
    ELSE assignValues(Put1(v, k, Head(values)), k, Tail(values))

\* the body of the loop of headers with the keys compared letter by letter
headersKey_CaseSensitive(v, k, values) ==
    IF k = "Authorization" \/ k = "X-Registry-Config" \/ k = "X-Registry-Auth"
    THEN v
    ELSE assignValues(v, k, values)
\* the body of `for k, values := range header` in headers
headersKey(v, k, values) ==
    IF EqualFold(k, "Authorization") \/ EqualFold(k, "X-Registry-Config")
          \/ EqualFold(k, "X-Registry-Auth")
    THEN v
    ELSE assignValues(v, k, values)

\* headers is called with a header set
HeadersStart ==
    /\ calls = <<>>
    /\ \E h \in HeaderSets : \E o \in Orders(DOMAIN h) :
         calls' = <<[op |-> "headers", header |-> h, order |-> o]>>
    /\ pc' = <<"range">>
    /\ loc' = <<[i |-> 0, v |-> <<>>]>>
    /\ UNCHANGED <<subvolumes, quotas, limits, fsQuota, quotaEnabled, once, minSpace,
                   idMap, driver, created, last, world0>>

\* the next key of the range, or the return of v
HeadersKey ==
    /\ calls /= <<>>
    /\ calls[1].op = "headers"
    /\ pc[1] = "range"
    /\ IF loc[1].i = Len(calls[1].order)
       THEN pc' = <<"done">> /\ loc' = loc
       ELSE LET k == calls[1].order[loc[1].i + 1]
            IN /\ pc' = pc
               /\ loc' = <<[i |-> loc[1].i + 1,
                            v |-> headersKey(loc[1].v, k, calls[1].header[k])]>>
    /\ UNCHANGED <<subvolumes, quotas, limits, fsQuota, quotaEnabled, once, minSpace,
                   idMap, driver, created, last, calls, world0>>

NextHeaders == HeadersStart \/ HeadersKey

SpecHeaders == Init /\ [][NextHeaders]_vars

----------------------------------------------------------------------------
\* The process list of a container (parsePSOutput).  The output of ps is a
\* header and lines; a line is the empty string or the list of its fields
\* (fieldsASCII), a field the list of its characters.  A call runs the loop
\* over the lines one line per step.

MaxLines == 3
MaxPid == 2

\* the titles of the header: the PID column first, second, or missing
PSHeaders == {<<"PID", "CMD">>, <<"UID", "PID">>, <<"CMD">>}
\* the text of a PID field: a number, a signed number, a thread, something else
PidFields == {Sprint(n) : n \in 1..MaxPid} \cup {<<"+", "1">>, <<"-">>, <<"x">>}
EmptyLine == [empty |-> TRUE, fields |-> <<>>]
\* a line of white space only is not empty and has no field
BlankLine == [empty |-> FALSE, fields |-> <<>>]
\* the lines under a header: full rows, a row with a command of two words,
\* the empty line and the blank line
PSLines(titles) ==
    {[empty |-> FALSE,
      fields |-> [j \in 1..Len(titles) |-> IF titles[j] = "PID" THEN f ELSE <<"0">>]] :
        f \in PidFields}
    \cup {[empty |-> FALSE, fields |-> <<Sprint(1), <<"s">>, <<"c">>>>], EmptyLine, BlankLine}
PSOutputs ==
    UNION {[titles : {t}, lines : UNION {[1..n -> PSLines(t)] : n \in 0..MaxLines}] :
             t \in PSHeaders}
\* the pid list of the container
ProcLists == SUBSET (1..MaxPid)

\* strconv.Atoi on a short text: an optional sign and decimal digits
Atoi(s) ==
    IF s /= <<>> /\ Head(s) \in {"+", "-"}
    THEN IF ParseUint(Tail(s)).err /= OK THEN [err |-> "syntax", n |-> 0]
         ELSE [err |-> OK, n |-> IF Head(s) = "-" THEN 0 - ParseUint(Tail(s)).n
                                  ELSE ParseUint(Tail(s)).n]
    ELSE ParseUint(s)

\* the index of the first title "PID", counted from 1; 0 when there is none
pidIndex(titles) ==
    IF \E i \in DOMAIN titles : titles[i] = "PID"
    THEN CHOOSE i \in DOMAIN titles :
            titles[i] = "PID" /\ \A j \in 1..(i - 1) : titles[j] /= "PID"
    ELSE 0

hasPid(procs, pid) == pid \in procs

\* appendProcess2ProcList: the fields before the last title, then the fields
\* from the last title on, joined
appendProcess2ProcList(procList, titles, fields) ==
    Append(procList, Append(SubSeq(fields, 1, Len(titles) - 1),
                            SubSeq(fields, Len(titles), Len(fields))))

\* the body of the loop with the flag left as it is by a process that is not
\* of the container
psLine_FlagKept(titles, procs, line, l) ==
    LET idx == pidIndex(titles)
        fields == line.fields
    IN IF line.empty THEN [pc |-> "lines", loc |-> l]
       ELSE IF idx > Len(fields) THEN [pc |-> "panic", loc |-> l]
       ELSE IF fields[idx] = <<"-">> THEN
           [pc |-> "lines",
            loc |-> IF l.flag
                    THEN [l EXCEPT !.procList = appendProcess2ProcList(@, titles, fields)]
                    ELSE l]
       ELSE IF Atoi(fields[idx]).err /= OK
       THEN [pc |-> "done", loc |-> [l EXCEPT !.procList = <<>>, !.err = "badpid"]]
       ELSE IF hasPid(procs, Atoi(fields[idx]).n)
       THEN [pc |-> "lines",
             loc |-> [l EXCEPT !.flag = TRUE,
                               !.procList = appendProcess2ProcList(@, titles, fields)]]
       ELSE [pc |-> "lines", loc |-> l]
\* the body of `for _, line := range lines[1:]`; the index of a line with too
\* few fields is out of range
psLine(titles, procs, line, l) ==
    LET idx == pidIndex(titles)
        fields == line.fields
    IN IF line.empty THEN [pc |-> "lines", loc |-> l]
       ELSE IF idx > Len(fields) THEN [pc |-> "panic", loc |-> l]
       ELSE IF fields[idx] = <<"-">> THEN
           [pc |-> "lines",
            loc |-> IF l.flag
                    THEN [l EXCEPT !.procList = appendProcess2ProcList(@, titles, fields)]
                    ELSE l]
       ELSE IF Atoi(fields[idx]).err /= OK
       THEN [pc |-> "done", loc |-> [l EXCEPT !.procList = <<>>, !.err = "badpid"]]
       ELSE IF hasPid(procs, Atoi(fields[idx]).n)
       THEN [pc |-> "lines",
             loc |-> [l EXCEPT !.flag = TRUE,
                               !.procList = appendProcess2ProcList(@, titles, fields)]]
       ELSE [pc |-> "lines", loc |-> [l EXCEPT !.flag = FALSE]]

\* parsePSOutput is called with the output of ps and the pid list
PSStart ==
    /\ calls = <<>>
    /\ \E out \in PSOutputs, procs \in ProcLists :
         calls' = <<[op |-> "parsePSOutput", titles |-> out.titles, lines |-> out.lines,
                     procs |-> procs]>>
    /\ pc' = <<"header">>
    /\ loc' = <<[i |-> 0, flag |-> FALSE, procList |-> <<>>, err |-> OK]>>
    /\ UNCHANGED <<subvolumes, quotas, limits, fsQuota, quotaEnabled, once, minSpace,
                   idMap, driver, created, last, world0>>

\* the search of the PID title
PSHeader ==
    /\ calls /= <<>>
    /\ calls[1].op = "parsePSOutput"
    /\ pc[1] = "header"
    /\ IF pidIndex(calls[1].titles) = 0
       THEN pc' = <<"done">> /\ loc' = <<[loc[1] EXCEPT !.err = "nopid"]>>
       ELSE pc' = <<"lines">> /\ loc' = loc
    /\ UNCHANGED <<subvolumes, quotas, limits, fsQuota, quotaEnabled, once, minSpace,
                   idMap, driver, created, last, calls, world0>>

\* the next line, or the return of the list
PSLine ==
    /\ calls /= <<>>
    /\ calls[1].op = "parsePSOutput"
    /\ pc[1] = "lines"
    /\ IF loc[1].i = Len(calls[1].lines)
       THEN pc' = <<"done">> /\ loc' = loc
       ELSE LET r == psLine(calls[1].titles, calls[1].procs,
                            calls[1].lines[loc[1].i + 1],
                            [loc[1] EXCEPT !.i = @ + 1])
            IN pc' = <<r.pc>> /\ loc' = <<r.loc>>
    /\ UNCHANGED <<subvolumes, quotas, limits, fsQuota, quotaEnabled, once, minSpace,
                   idMap, driver, created, last, calls, world0>>

NextPS == PSStart \/ PSHeader \/ PSLine

SpecPS == Init /\ [][NextPS]_vars

----------------------------------------------------------------------------
\* Properties.  A property of a call is stated of the call's operator applied
\* to the current state with every input and every failure the action draws.

InvalidArgument == {"parse_size", "unknown_option", "invalid_size", "below_min"}

Ready == driver = "ready"
Issued(tr, name) == \E i \in DOMAIN tr : tr[i].op = name
IssuedOk(tr, name, ok) == \E i \in DOMAIN tr : tr[i].op = name /\ tr[i].ok = ok
\* the layer's tree, quota record and limits
Layer(w, id) ==
    [sv |-> Restrict(w.sv, Tree(w.sv, <<id>>)),
     qf |-> Restrict(w.qf, {id} \cap DOMAIN w.qf),
     lim |-> Restrict(w.lim, {q \in DOMAIN w.lim : IsPrefix(<<id>>, q)})]
LayerNow(id) == Layer(W, id)

\* C1 as claimed: every layer whose Create succeeded and whose Remove was not
\* called since is a genuine subvolume, Exists of it returns true and Get of it
\* returns exactly home/subvolumes/<id>.
C1_Original ==
    /\ \A id \in created : isSubvolume(subvolumes, <<id>>).sv
    /\ (last.op = "Exists" /\ last.id \in created) => last.found
    /\ (last.op = "Get" /\ last.id \in created) =>
           (last.err = OK /\ last.path = <<last.id>>)

\* C1 as amended: as above, but Get of a layer with a quota record returns
\* the error of enabling quota or of setting the limit when re-applying the
\* recorded quota fails; it returns no other path and fails in no other way.
C1_CreatedLayerServed ==
    /\ \A id \in created : isSubvolume(subvolumes, <<id>>).sv
    /\ (last.op = "Exists" /\ last.id \in created) => last.found
    /\ (last.op = "Get" /\ last.id \in created) =>
           \/ last.err = OK /\ last.path = <<last.id>>
           \/ /\ last.err \in {"enable", "limit"} /\ last.path = <<>>
              /\ last.id \in DOMAIN quotas

C1_Witness ==
    /\ last.op = "Get" /\ last.err = OK /\ last.path = <<last.id>>
    /\ last.id \in created /\ last.id \in DOMAIN quotas

\* C2: a step of Remove(id) leaves every other layer as it was: its tree (so
\* it still exists and is a subvolume), its quota record and its limit.
C2_RemoveFrame ==
    [][last'.op = "Remove" =>
         \A o \in Ids \ {last'.id} :
            /\ LayerNow(o)' = LayerNow(o)
            /\ <<o>> \in DOMAIN subvolumes =>
                   isSubvolume(subvolumes', <<o>>).sv = isSubvolume(subvolumes, <<o>>).sv]_vars

C2_Witness ==
    /\ last.op = "Remove" /\ last.err = OK /\ <<last.id>> \notin DOMAIN subvolumes
    /\ \E o \in Ids \ {last.id} :
          isSubvolume(subvolumes, <<o>>).sv /\ o \in DOMAIN quotas /\ <<o>> \in DOMAIN limits

\* the subvolumes strictly below p
NestedSubvolumes(sv, p) == {q \in Tree(sv, p) : q /= p /\ isSubvolume(sv, q).sv}

\* C3: in every Remove(id), whenever the destroy operation is issued on a
\* subvolume, every subvolume nested in it (at any depth) has been destroyed
\* before; after a successful Remove nothing of the layer's tree exists.
C3_ChildrenFirst ==
    Ready => \A id \in Ids : \A F \in RemoveFaults(W, id) :
        LET r == Remove(W, id, F)
            tr == r.w.tr
        IN /\ \A i \in DOMAIN tr :
                 tr[i].op = "snap_destroy" =>
                     \A q \in NestedSubvolumes(subvolumes, tr[i].path) :
                        \E j \in 1..(i - 1) : tr[j] = Op("snap_destroy", q, TRUE)
           /\ r.err = OK => Tree(r.w.sv, <<id>>) = {}

\* a Remove that destroys a subvolume nested in a nested subvolume, then the
\* nested subvolume, then the layer
C3_Witness ==
    /\ Ready
    /\ \E id \in Ids, n \in Names, m \in Names :
          LET r == Remove(W, id, {})
          IN /\ r.err = OK
             /\ \E i, j, k \in DOMAIN r.w.tr :
                   /\ i < j /\ j < k
                   /\ r.w.tr[i] = Op("snap_destroy", <<id, n, m>>, TRUE)
                   /\ r.w.tr[j] = Op("snap_destroy", <<id, n>>, TRUE)
                   /\ r.w.tr[k] = Op("snap_destroy", <<id>>, TRUE)

\* C4 as claimed: Remove of a layer whose subvolume directory is gone and
\* whose quota record exists removes the record and returns success.
C4_Original ==
    Ready => \A id \in Ids :
        (<<id>> \notin DOMAIN subvolumes /\ id \in DOMAIN quotas) =>
            LET r == Remove(W, id, {})
            IN r.err = OK /\ id \notin DOMAIN r.w.qf

\* C4 as amended: Remove of a layer whose subvolume directory does not exist
\* returns the error of the stat and changes nothing: a quota record stays.
C4_RemoveOfMissingLayer ==
    Ready => \A id \in Ids : \A F \in RemoveFaults(W, id) :
        <<id>> \notin DOMAIN subvolumes =>
            LET r == Remove(W, id, F)
            IN r.err = "ENOENT" /\ r.w = W

C4_Witness ==
    /\ last.op = "Remove" /\ last.err = "ENOENT"
    /\ <<last.id>> \notin DOMAIN subvolumes /\ last.id \in DOMAIN quotas

\* the delete step of a Remove failed
DeleteFailed(tr) == IssuedOk(tr, "snap_destroy", FALSE)

\* C5 as claimed: a failed delete step makes Remove return an error, and
\* neither the forced removal nor the rescan runs, with or without quota.
C5_Original ==
    Ready => \A id \in Ids : \A F \in RemoveFaults(W, id) :
        LET r == Remove(W, id, F)
        IN DeleteFailed(r.w.tr) =>
              /\ r.err /= OK
              /\ ~Issued(r.w.tr, "remove_all")
              /\ ~Issued(r.w.tr, "quota_rescan")

\* C5 as amended: a failed delete step propagates when quotaEnabled is true
\* after the probe: Remove returns its error and runs neither the forced
\* removal nor the rescan.  With quotaEnabled false the error is dropped, the
\* forced removal runs and decides the result.
C5_DeleteFailure ==
    Ready => \A id \in Ids : \A F \in RemoveFaults(W, id) :
        LET r == Remove(W, id, F)
        IN DeleteFailed(r.w.tr) =>
              IF r.w.qe
              THEN /\ r.err \in {"destroy", "walk"}
                   /\ ~Issued(r.w.tr, "remove_all")
                   /\ ~Issued(r.w.tr, "quota_rescan")
                   /\ <<id>> \in DOMAIN r.w.sv
              ELSE /\ Issued(r.w.tr, "remove_all")
                   /\ ~Issued(r.w.tr, "quota_rescan")
                   /\ r.err = (IF IssuedOk(r.w.tr, "remove_all", TRUE) THEN OK ELSE "rmall")
                   /\ r.err = OK <=> <<id>> \notin DOMAIN r.w.sv

C5_Witness ==
    /\ last.op = "Remove" /\ last.err = "destroy" /\ quotaEnabled
    /\ <<last.id>> \in DOMAIN subvolumes

\* C6 as claimed: when the rescan after a successful delete and cleanup
\* fails, Remove still returns success.
C6_Original ==
    Ready => \A id \in Ids : \A F \in RemoveFaults(W, id) :
        LET r == Remove(W, id, F)
        IN IssuedOk(r.w.tr, "quota_rescan", FALSE) => r.err = OK

\* C6 as amended: when the rescan after a successful delete and cleanup
\* fails, Remove returns the error of the rescan, although the layer's
\* directory and quota record are gone.
C6_RescanFailure ==
    Ready => \A id \in Ids : \A F \in RemoveFaults(W, id) :
        LET r == Remove(W, id, F)
        IN IssuedOk(r.w.tr, "quota_rescan", FALSE) =>
              /\ r.err = "rescan"
              /\ Tree(r.w.sv, <<id>>) = {}
              /\ id \notin DOMAIN r.w.qf

C6_Witness ==
    /\ last.op = "Remove" /\ last.err = "rescan"
    /\ <<last.id>> \notin DOMAIN subvolumes /\ last.id \notin DOMAIN quotas

\* the size a "size" option asks for is zero or below a nonzero floor
BadSize(so) ==
    /\ DOMAIN so = {"size"}
    /\ RAMInBytes(so["size"]).err = OK
    /\ \/ RAMInBytes(so["size"]).n = 0
       \/ minSpace > 0 /\ RAMInBytes(so["size"]).n < minSpace

\* C7: a Create whose size option parses to zero, or to less than a nonzero
\* min_space, fails; it issues no probe, no quota enable and no limit, and
\* writes no quota record; once its create or snapshot step succeeded the error
\* is the invalid-size error and no quota record of the layer exists.
C7_BadSizeRejected ==
    Ready => \A id \in Ids, parent \in Parents, so \in SizeOpts :
        BadSize(so) => \A order \in KeyOrders(so), F \in CreateFaults(W, parent, so) :
            LET r == Create(W, id, parent, so, order, F)
            IN /\ r.err /= OK
               /\ ~Issued(r.w.tr, "qgroup_status")
               /\ ~Issued(r.w.tr, "quota_enable")
               /\ ~Issued(r.w.tr, "qgroup_limit")
               /\ ~Issued(r.w.tr, "write_quota")
               /\ r.w.qf = quotas
               /\ r.w.lim = limits /\ r.w.qe = quotaEnabled /\ r.w.kq = fsQuota
               /\ (IssuedOk(r.w.tr, "subvol_create", TRUE)
                     \/ IssuedOk(r.w.tr, "snap_create", TRUE))
                    => /\ r.err = (IF RAMInBytes(so["size"]).n = 0
                                   THEN "invalid_size" ELSE "below_min")
                       /\ id \notin DOMAIN r.w.qf

C7_Witness ==
    /\ last.op = "Create" /\ last.err = "below_min" /\ minSpace > 0
    /\ <<last.id>> \in DOMAIN subvolumes /\ last.id \notin DOMAIN quotas

\* an option map holds a key that is not a size key in any letter case
HasUnknownKey(so) == \E k \in DOMAIN so : ToLower(k) /= "size"
HasUnknownOption(options) ==
    \E i \in DOMAIN options : ToLower(options[i].key) /= "btrfs.min_space"
CreateStepOk(tr) ==
    IssuedOk(tr, "subvol_create", TRUE) \/ IssuedOk(tr, "snap_create", TRUE)

\* C8: Init fails for an option list with an unknown key, and Create fails
\* with an invalid-argument error for a storage-option map with a key that is
\* not the size key, with or without a size key, in any letter case.
C8_UnknownKeyRejected ==
    /\ driver = "none" => \A options \in DriverOptions :
           HasUnknownOption(options) => NewDriver(fsQuota, options, 0, {}).err /= OK
    /\ Ready => \A id \in Ids, parent \in Parents, so \in StorageOpts :
           HasUnknownKey(so) => \A order \in KeyOrders(so) :
               LET r == Create(W, id, parent, so, order, {})
               IN r.err /= OK /\ (CreateStepOk(r.w.tr) => r.err \in InvalidArgument)

\* the recorded limit Get re-applies: the record exists, is a decimal number
\* and is not below min_space
Recorded(id) ==
    /\ id \in DOMAIN quotas
    /\ ParseUint(quotas[id]).err = OK
    /\ ParseUint(quotas[id]).n >= minSpace

\* C9: Get of an existing layer issues the limit operation only for a
\* recorded limit N that parses and is not below min_space, after a successful
\* enableQuota; when it then returns success the limit of the layer is N;
\* otherwise it issues no operation at all and returns the path.
C9_GetReappliesLimit ==
    Ready => \A id \in Ids : \A F \in GetFaults(W, id) :
        (<<id>> \in DOMAIN subvolumes /\ subvolumes[<<id>>].dir) =>
            LET r == Get(W, id, F)
            IN IF Recorded(id)
               THEN /\ r.err \in {OK, "enable", "limit"}
                    /\ Issued(r.w.tr, "qgroup_limit") => r.w.qe
                    /\ r.err = OK =>
                          /\ \E i \in DOMAIN r.w.tr : r.w.tr[i] = Op("qgroup_limit", <<id>>, TRUE)
                          /\ r.w.lim[<<id>>] = ParseUint(quotas[id]).n
                          /\ r.path = <<id>>
               ELSE r.err = OK /\ r.path = <<id>> /\ r.w = W

C9_Witness ==
    /\ last.op = "Get" /\ last.err = OK
    /\ Recorded(last.id) /\ <<last.id>> \in DOMAIN limits
    /\ limits[<<last.id>>] = ParseUint(quotas[last.id]).n
    /\ \E o \in Ids : o \in DOMAIN quotas /\ ~Recorded(o)

AllDone == calls /= <<>> /\ \A i \in DOMAIN calls : pc[i] = "done"

\* C10: when calls in flight at once on different layers have all returned,
\* some order of them run one at a time from the same starting state, with the
\* same operations failing, gives every call the same result and leaves the
\* same subvolumes, quota records and limits.
C10_Linearizable ==
    AllDone =>
        \E o \in Orders(DOMAIN calls) :
            LET r == RunSeq(world0, o, [i \in DOMAIN calls |-> [err |-> OK, path |-> <<>>]])
            IN /\ \A i \in DOMAIN calls :
                     r.res[i] = [err |-> loc[i].err, path |-> loc[i].path]
               /\ r.w.sv = subvolumes
               /\ r.w.qf = quotas
               /\ r.w.lim = limits

\* C11: once the probe has completed no step changes quotaEnabled, so that
\* every later read of it by any call sees the same value.
C11_FlagStableAfterProbe ==
    [][once = "done" => quotaEnabled' = quotaEnabled]_vars

ProbeCount(tr) == Cardinality({k \in DOMAIN tr : tr[k].op = "qgroup_status"})
\* the labels at which a call reads quotaEnabled or has read it
AfterProbe == {"read", "delete", "check", "rmall", "rescan", "enable", "setflag",
               "limit", "record"}

\* C12: qgroupStatus runs at most once in the Driver's lifetime: never again
\* once the once is done, at most once in Init and in any call made when it is
\* not, and at most once among calls in flight together; while it runs one call
\* runs it and no call is at or past a read of quotaEnabled.
C12_ProbeOnce ==
    /\ driver = "none" => \A options \in DriverOptions, F \in InitFaults :
           LET r == NewDriver(fsQuota, options, 0, F)
           IN ProbeCount(r.w.tr) <= 1 /\ (ProbeCount(r.w.tr) = 1 => r.w.once = "done")
    /\ (Ready /\ calls = <<>>) =>
           \A id \in Ids :
              /\ \A F \in RemoveFaults(W, id) :
                    LET r == Remove(W, id, F)
                    IN /\ ProbeCount(r.w.tr) <= (IF once = "done" THEN 0 ELSE 1)
                       /\ ProbeCount(r.w.tr) = 1 => r.w.once = "done"
              /\ \A F \in GetFaults(W, id) :
                    LET r == Get(W, id, F)
                    IN /\ ProbeCount(r.w.tr) <= (IF once = "done" THEN 0 ELSE 1)
                       /\ ProbeCount(r.w.tr) = 1 => r.w.once = "done"
              /\ \A parent \in Parents, so \in SizeOpts :
                    \A order \in KeyOrders(so), F \in CreateFaults(W, parent, so) :
                       LET r == Create(W, id, parent, so, order, F)
                       IN /\ ProbeCount(r.w.tr) <= (IF once = "done" THEN 0 ELSE 1)
                          /\ ProbeCount(r.w.tr) = 1 => r.w.once = "done"
    /\ calls /= <<>> =>
           /\ \A i \in DOMAIN calls : loc[i].probes <= 1
           /\ Cardinality({i \in DOMAIN calls : loc[i].probes = 1})
                 <= (IF world0.once = "done" THEN 0 ELSE 1)
           /\ \A i \in DOMAIN calls : pc[i] \in AfterProbe => once = "done"
           /\ once = "running" =>
                 Cardinality({i \in DOMAIN calls : pc[i] = "probing"}) = 1
           /\ once /= "running" => \A i \in DOMAIN calls : pc[i] /= "probing"

\* one call runs the probe while another waits for it
C12_Witness ==
    /\ once = "running"
    /\ \E i, j \in DOMAIN calls : pc[i] = "probing" /\ pc[j] = "probe"

\* C13: quotaEnabled is monotone: the once never leaves "done", a true flag
\* is never set back to false by any call, failing or not, and the flag is
\* true only after the probe ran.
C13_FlagMonotone ==
    [][/\ once = "done" => once' = "done"
       /\ quotaEnabled => quotaEnabled'
       /\ quotaEnabled' => once' = "done"]_vars

\* the flag is still true after a Remove whose rescan failed
C13_Witness ==
    /\ quotaEnabled /\ once = "done"
    /\ last.op = "Remove" /\ last.err = "rescan"

\* C14: a step of Put(id) or Exists(id), for an existing layer or not, changes
\* no layer, quota record, limit, quota state, flag or once; Put returns
\* success and Exists returns whether home/subvolumes/<id> can be statted.
C14_PutExistsPure ==
    [][last'.op \in {"Put", "Exists"} =>
         /\ UNCHANGED <<subvolumes, quotas, limits, fsQuota, quotaEnabled, once,
                        minSpace, idMap>>
         /\ last'.err = OK
         /\ last'.op = "Exists" => last'.found = (<<last'.id>> \in DOMAIN subvolumes)]_vars

\* Exists of a missing layer before the probe ever ran, beside an existing layer
C14_Witness ==
    /\ last.op = "Exists" /\ ~last.found /\ once = "new"
    /\ <<last.id>> \notin DOMAIN subvolumes
    /\ \E o \in Ids : <<o>> \in DOMAIN subvolumes

\* C15: for a name of any length no binding panics, and a binding that
\* issues its control operation has copied a prefix of the name of at most
\* the capacity of the name field: the whole name when it is shorter than
\* the smallest field, a truncated one only for a longer name.
C15_NameTruncated ==
    \A k \in DOMAIN calls :
        calls[k].op \in NameBindings =>
            /\ pc[k] /= "panic"
            /\ pc[k] \in {"ioctl", "done"} =>
                  /\ loc[k].copied <= NameCapacity(calls[k].op)
                  /\ loc[k].copied <= calls[k].len
                  /\ calls[k].len < BTRFS_SUBVOL_NAME_MAX => loc[k].copied = calls[k].len

\* the position of the first plugin that does not allow, 0 when all allow
FirstRefusal(vs) ==
    IF \A j \in DOMAIN vs : vs[j] = "allow" THEN 0
    ELSE CHOOSE j \in DOMAIN vs :
            vs[j] /= "allow" /\ \A h \in 1..(j - 1) : vs[h] = "allow"

\* C16: AuthZRequest consults the plugins in the configured order and
\* returns nil exactly when every plugin of the list was consulted and
\* returned Allow without error; otherwise, when a plugin was consulted, it
\* stopped at the first plugin that denied or failed, its error names that
\* plugin and no later plugin was consulted.  (When the body cannot be read
\* no plugin is consulted at all.)
C16_AllPluginsAllow ==
    \A k \in DOMAIN calls :
        calls[k].op = "AuthZRequest" =>
            LET c == calls[k]
                l == loc[k]
                n == Len(l.consulted)
                f == FirstRefusal(c.verdicts)
            IN /\ n <= Len(c.plugins)
               /\ l.consulted = SubSeq(c.plugins, 1, n)
               /\ \A j \in 1..(n - 1) : c.verdicts[j] = "allow"
               /\ pc[k] = "done" =>
                     /\ l.err = NoError <=>
                           (/\ l.consulted = c.plugins
                            /\ c.body /= "error"
                            /\ \A j \in DOMAIN c.plugins : c.verdicts[j] = "allow")
                     /\ c.body = "error" => n = 0 /\ l.err = BodyError
                     /\ (c.body /= "error" /\ f > 0) =>
                           /\ n = f
                           /\ l.err.plugin = c.plugins[f]
                           /\ l.err.kind = (IF c.verdicts[f] = "error" THEN "failed"
                                            ELSE "authorization")
\* a request was denied by the second of three plugins whose last would have
\* failed: two plugins were consulted
C16_Witness ==
    /\ calls /= <<>>
    /\ calls[1].op = "AuthZRequest"
    /\ pc[1] = "done"
    /\ Len(calls[1].plugins) = 3
    /\ calls[1].verdicts = <<"allow", "deny", "error">>
    /\ Len(loc[1].consulted) = 2
    /\ loc[1].err = newAuthorizationError(calls[1].plugins[2])

C18_EnableQuotaIdempotent ==
    Ready => \A F, G \in SUBSET {"status", "enable"} :
        LET u == updateQuotaStatus(W, F)
            r == enableQuota(W, F)
            w1 == [r.w EXCEPT !.tr = <<>>]
            again == enableQuota(w1, G)
        IN /\ u.qe => /\ r.err = OK
                      /\ ~Issued(r.w.tr, "quota_enable")
                      /\ r.w = u
           /\ quotaEnabled => r.err = OK /\ r.w = W
           /\ r.err = OK => /\ r.w.qe
                            /\ again.err = OK
                            /\ again.w = w1
\* quota is enabled and two layers carry a limit: enableQuota has succeeded
\* in one call and has been called again in a later one
C18_Witness ==
    /\ Ready /\ quotaEnabled /\ once = "done"
    /\ last.op = "Create" /\ last.err = OK /\ <<last.id>> \in DOMAIN limits
    /\ \E o \in Ids \ {last.id} : <<o>> \in DOMAIN limits /\ o \in DOMAIN quotas

\* the place of an operation in Driver.Create
CreateRank(op) ==
    CASE op = "mkdir_subvolumes" -> 0
      [] op \in {"subvol_create", "snap_create"} -> 1
      [] op = "qgroup_status" -> 2
      [] op = "quota_enable" -> 3
      [] op = "qgroup_limit" -> 4
      [] op = "mkdir_quotas" -> 5
      [] op = "write_quota" -> 6
      [] op = "chown" -> 7
      [] OTHER -> 8
\* quotaEnabled when the operation at place i of the trace is issued: it was
\* true at the start of the call, or the probe or the enable operation
\* before place i succeeded
EnabledAt(tr, i) ==
    \/ quotaEnabled
    \/ \E j \in 1..(i - 1) : tr[j].op \in {"qgroup_status", "quota_enable"} /\ tr[j].ok
\* enableQuota has returned success before place i: the flag is true there and
\* no enable operation failed
EnableSucceededAt(tr, i) ==
    /\ EnabledAt(tr, i)
    /\ \A j \in DOMAIN tr : tr[j].op = "quota_enable" => (j < i /\ tr[j].ok)
    /\ \A j \in DOMAIN tr : tr[j].op = "qgroup_status" => j < i

\* C19: in every Create with a size option the operations are issued in the
\* order create or snapshot, probe, enable, limit, record write, each at most
\* once and each only after the ones before it succeeded (a probe that finds
\* no quota is no failure); no quota operation is issued before the subvolume
\* was created; the limit is issued, in Create and in Get, only after
\* enableQuota succeeded in the same call, so with quotaEnabled true; the
\* record is written only after the limit of the layer was set.
C19_CreateStepOrder ==
    Ready =>
      /\ \A id \in Ids, parent \in Parents, so \in SizeOpts :
           "size" \in DOMAIN so =>
             \A order \in KeyOrders(so), F \in CreateFaults(W, parent, so) :
               LET r == Create(W, id, parent, so, order, F)
                   tr == r.w.tr
               IN /\ \A i, j \in DOMAIN tr :
                        i < j => /\ CreateRank(tr[i].op) < CreateRank(tr[j].op)
                                 /\ tr[i].ok \/ tr[i].op = "qgroup_status"
                  /\ r.err = OK => \A i \in DOMAIN tr : tr[i].ok \/ tr[i].op = "qgroup_status"
                  /\ \A i \in DOMAIN tr :
                        /\ CreateRank(tr[i].op) \in 2..6 =>
                              \E j \in 1..(i - 1) : CreateRank(tr[j].op) = 1 /\ tr[j].ok
                        /\ tr[i].op = "qgroup_limit" =>
                              /\ EnableSucceededAt(tr, i)
                              /\ r.w.qe
                              /\ tr[i].path = <<id>>
                        /\ tr[i].op \in {"mkdir_quotas", "write_quota"} =>
                              \E j \in 1..(i - 1) : tr[j] = Op("qgroup_limit", <<id>>, TRUE)
                  /\ (r.err = OK /\ RAMInBytes(so["size"]).err = OK) =>
                        /\ IssuedOk(tr, "qgroup_limit", TRUE)
                        /\ IssuedOk(tr, "write_quota", TRUE)
      /\ \A id \in Ids : \A F \in GetFaults(W, id) :
           LET r == Get(W, id, F)
               tr == r.w.tr
           IN \A i \in DOMAIN tr :
                 tr[i].op = "qgroup_limit" => EnableSucceededAt(tr, i) /\ r.w.qe
\* a Create with a size has enabled quota, set the limit and written the record
C19_Witness ==
    /\ last.op = "Create" /\ last.err = OK
    /\ quotaEnabled /\ fsQuota
    /\ last.id \in DOMAIN quotas /\ <<last.id>> \in DOMAIN limits
    /\ limits[<<last.id>>] = ParseUint(quotas[last.id]).n

\* the place of an operation in Driver.Remove; the recursive delete issues
\* its lookups, quota group removals and destroys at place 2
RemoveRank(op) ==
    CASE op = "remove_quota" -> 0
      [] op = "qgroup_status" -> 1
      [] op = "remove_all" -> 3
      [] op = "quota_rescan" -> 4
      [] OTHER -> 2

\* C20: the operations of every Remove(id) are issued in the order record
\* removal, probe, recursive delete, forced removal of the directory, rescan,
\* each of them at most once but for those of the recursive delete; the
\* rescan is issued only with quotaEnabled true and only after the forced
\* removal of the layer's directory succeeded.  A Remove that returns success
\* has removed the record when there was one, probed when the probe had not
\* run, issued the destroy, removed the directory, and rescanned exactly when
\* quota is enabled.
C20_RemoveStepOrder ==
    Ready => \A id \in Ids : \A F \in RemoveFaults(W, id) :
        LET r == Remove(W, id, F)
            tr == r.w.tr
        IN /\ \A i, j \in DOMAIN tr :
                 i < j => /\ RemoveRank(tr[i].op) <= RemoveRank(tr[j].op)
                          /\ RemoveRank(tr[i].op) = RemoveRank(tr[j].op) =>
                                RemoveRank(tr[i].op) = 2
           /\ \A i \in DOMAIN tr :
                 tr[i].op = "quota_rescan" =>
                    /\ r.w.qe
                    /\ quotaEnabled \/ \E j \in 1..(i - 1) : tr[j] = Op("qgroup_status", <<>>, TRUE)
                    /\ \E j \in 1..(i - 1) : tr[j] = Op("remove_all", <<id>>, TRUE)
           /\ r.err = OK =>
                 /\ id \in DOMAIN quotas => tr[1] = Op("remove_quota", <<id>>, TRUE)
                 /\ once = "new" => Issued(tr, "qgroup_status")
                 /\ Issued(tr, "snap_destroy")
                 /\ IssuedOk(tr, "remove_all", TRUE)
                 /\ r.w.qe <=> tr[Len(tr)] = Op("quota_rescan", <<>>, TRUE)
                 /\ ~r.w.qe => tr[Len(tr)] = Op("remove_all", <<id>>, TRUE)
\* a Remove with quota enabled has returned success: record and layer are gone
C20_Witness ==
    /\ last.op = "Remove" /\ last.err = OK
    /\ quotaEnabled /\ once = "done"
    /\ <<last.id>> \notin DOMAIN subvolumes
    /\ last.id \notin DOMAIN quotas /\ <<last.id>> \notin DOMAIN limits

\* the failures of the quota group of a subvolume, and those of a delete
QgroupFaults == {"lookup", "qgroup_remove"}
DeleteFaults == SUBSET (QgroupFaults \cup {"destroy", "destroy_nested"})

\* C21: in subvolDelete of a layer with quota enabled a failed lookup or a
\* failed removal of the quota group changes neither the result of the call
\* nor the subvolumes it leaves: when the walk succeeds the destroy of the
\* layer is issued, and the call succeeds exactly when that destroy does.
\* With quota disabled no lookup and no removal of a group is issued.
C21_QgroupFailureNotFatal ==
    Ready => \A id \in Ids : \A F \in DeleteFaults :
        IsDir(subvolumes, <<id>>) =>
            LET r == subvolDelete(W, <<>>, id, TRUE, F)
                b == subvolDelete(W, <<>>, id, TRUE, F \ QgroupFaults)
                n == subvolDelete(W, <<>>, id, FALSE, F)
                walked == WalkDir(W, <<id>>, TRUE, F).err = OK
            IN /\ r.err = b.err
               /\ r.w.sv = b.w.sv
               /\ walked => \E i \in DOMAIN r.w.tr :
                     /\ r.w.tr[i].op = "snap_destroy" /\ r.w.tr[i].path = <<id>>
                     /\ r.w.tr[i].ok = (r.err = OK)
               /\ r.err = OK => <<id>> \notin DOMAIN r.w.sv
               /\ ~Issued(n.w.tr, "ino_lookup")
               /\ ~Issued(n.w.tr, "qgroup_remove")
               /\ n.err = b.err
\* a Remove with quota enabled has succeeded, and another layer with a limit
\* is there whose delete succeeds while the lookup of its group fails
C21_Witness ==
    /\ Ready /\ quotaEnabled
    /\ last.op = "Remove" /\ last.err = OK
    /\ \E id \in Ids :
          /\ <<id>> \in DOMAIN limits
          /\ IssuedOk(subvolDelete(W, <<>>, id, TRUE, {"lookup"}).w.tr, "ino_lookup", FALSE)
          /\ subvolDelete(W, <<>>, id, TRUE, {"lookup"}).err = OK
          /\ IssuedOk(subvolDelete(W, <<>>, id, TRUE, {"qgroup_remove"}).w.tr,
                      "qgroup_remove", FALSE)
          /\ subvolDelete(W, <<>>, id, TRUE, {"qgroup_remove"}).err = OK

\* the failures of a walk: the lstat of isSubvolume, ReadDir of a nested
\* directory, ReadDir of the root, the destroy of a nested subvolume
WalkFaults == {"stat", "readdir", "readdir_root", "destroy_nested"}
\* the directories below p, and those of them no delete of a nested
\* subvolume removes before the walk reads them
NestedDirs(sv, p) == {q \in Tree(sv, p) : q /= p /\ sv[q].dir}
PlainDirs(sv, p) ==
    {q \in NestedDirs(sv, p) :
        \A k \in (Len(p) + 1)..Len(q) : ~isSubvolume(sv, SubSeq(q, 1, k)).sv}
TargetTouched(tr, p) ==
    \E i \in DOMAIN tr :
        tr[i].path = p /\ tr[i].op \in {"snap_destroy", "ino_lookup", "qgroup_remove"}

\* C22: in subvolDelete of a layer, the walk goes on over the entries that
\* vanished with a nested subvolume deleted before them: with no other
\* failure every nested subvolume is destroyed and the destroy of the layer
\* is issued.  A root that does not exist, a root or a nested directory
\* that cannot be read, a failed test of a nested directory and a failed
\* delete of a nested subvolume make the call return an error with no
\* operation issued on the layer itself.
C22_WalkErrors ==
    Ready => \A id \in Ids, quotaOn \in BOOLEAN : \A F \in SUBSET (WalkFaults \cup {"destroy"}) :
        LET r == subvolDelete(W, <<>>, id, quotaOn, F)
            tr == r.w.tr
            root == <<id>>
            aborted == r.err /= OK /\ ~TargetTouched(tr, root)
        IN IF root \notin DOMAIN subvolumes THEN aborted /\ tr = <<>>
           ELSE subvolumes[root].dir =>
             /\ "readdir_root" \in F => aborted /\ tr = <<>>
             /\ ("stat" \in F /\ NestedDirs(subvolumes, root) /= {}) => aborted
             /\ ("readdir" \in F /\ PlainDirs(subvolumes, root) /= {}) => aborted
             /\ ("destroy_nested" \in F /\ NestedSubvolumes(subvolumes, root) /= {}) => aborted
             /\ WalkDir(W, root, quotaOn, F).err /= OK => aborted /\ r.err = "walk"
             /\ F \cap WalkFaults = {} =>
                   /\ WalkDir(W, root, quotaOn, F).err = OK
                   /\ \A q \in NestedSubvolumes(subvolumes, root) :
                         \E i \in DOMAIN tr : tr[i] = Op("snap_destroy", q, TRUE)
                   /\ \E i \in DOMAIN tr :
                         tr[i].op = "snap_destroy" /\ tr[i].path = root
                   /\ ("destroy" \notin F /\ isSubvolume(subvolumes, root).sv) => r.err = OK
\* a layer holds a subvolume with an entry in it; the subvolume has vanished
\* when the walk comes to read it: the delete succeeds all the same, and is
\* aborted by a failed delete of the nested subvolume and by a failed test
C22_Witness ==
    /\ Ready /\ last = External
    /\ \E id \in Ids :
          /\ isSubvolume(subvolumes, <<id>>).sv
          /\ \E q \in NestedSubvolumes(subvolumes, <<id>>) : Tree(subvolumes, q) /= {q}
          /\ subvolDelete(W, <<>>, id, FALSE, {}).err = OK
          /\ subvolDelete(W, <<>>, id, FALSE, {"destroy_nested"}).err = "walk"
          /\ subvolDelete(W, <<>>, id, FALSE, {"stat"}).err = "walk"

\* C23: the response is flushed only when every plugin of the list, in
\* order, has been consulted on it and has allowed it; AuthZResponse stops
\* at the first plugin that denies or fails, names it in its error, consults
\* no later plugin and does not flush; when all allow it flushes.
C23_FlushAfterAllAllow ==
    \A k \in DOMAIN calls :
        calls[k].op = "AuthZRequest" =>
            LET c == calls[k]
                l == loc[k]
                n == Len(l.rconsulted)
                f == FirstRefusal(l.rverdicts)
            IN /\ n <= Len(c.plugins)
               /\ l.rconsulted = SubSeq(c.plugins, 1, n)
               /\ \A j \in 1..(n - 1) : l.rverdicts[j] = "allow"
               /\ n > 0 => l.err = NoError
               /\ l.flushed =>
                     /\ pc[k] = "rdone"
                     /\ l.rerr = NoError
                     /\ l.rconsulted = c.plugins
                     /\ \A j \in DOMAIN c.plugins : l.rverdicts[j] = "allow"
               /\ pc[k] = "rdone" =>
                     IF f = 0 THEN l.flushed /\ l.rerr = NoError
                     ELSE /\ ~l.flushed
                          /\ n = f
                          /\ l.rerr.plugin = c.plugins[f]
                          /\ l.rerr.kind = (IF l.rverdicts[f] = "error" THEN "failed"
                                            ELSE "authorization")
\* the response of an allowed request was denied by the second of three
\* plugins: the third was not consulted and nothing was flushed
C23_Witness ==
    /\ calls /= <<>>
    /\ calls[1].op = "AuthZRequest"
    /\ pc[1] = "rdone"
    /\ Len(calls[1].plugins) = 3
    /\ loc[1].rverdicts = <<"allow", "deny", "allow">>
    /\ Len(loc[1].rconsulted) = 2
    /\ ~loc[1].flushed
    /\ loc[1].rerr = newAuthorizationError(calls[1].plugins[2])

\* a key equal to one of the three credential headers in some letter case
Credential(k) ==
    Fold(k) \in {"authorization", "x-registry-config", "x-registry-auth"}

\* C24 as claimed: the result of headers holds no credential key, and every
\* other key of the header set with one of its values.
C24_Original ==
    \A c \in DOMAIN calls :
        calls[c].op = "headers" =>
            /\ \A k \in DOMAIN loc[c].v : ~Credential(k)
            /\ pc[c] = "done" =>
                  \A k \in DOMAIN calls[c].header :
                     ~Credential(k) =>
                        /\ k \in DOMAIN loc[c].v
                        /\ \E i \in DOMAIN calls[c].header[k] :
                              loc[c].v[k] = calls[c].header[k][i]

\* C24 as amended: the result of headers holds no credential key at any
\* time; when it returns, its keys are the other keys that have a value,
\* each with the last of its values; a key with no value is left out.
C24_HeadersFiltered ==
    \A c \in DOMAIN calls :
        calls[c].op = "headers" =>
            LET h == calls[c].header
                v == loc[c].v
            IN /\ \A k \in DOMAIN v : ~Credential(k) /\ k \in DOMAIN h
               /\ pc[c] = "done" =>
                     /\ DOMAIN v = {k \in DOMAIN h : ~Credential(k) /\ h[k] /= <<>>}
                     /\ \A k \in DOMAIN v : v[k] = h[k][Len(h[k])]
\* headers has returned for a set with a credential key in lower case, a key
\* with two values and a key with no value
C24_Witness ==
    /\ calls /= <<>>
    /\ calls[1].op = "headers"
    /\ pc[1] = "done"
    /\ "authorization" \in DOMAIN calls[1].header
    /\ calls[1].header["authorization"] /= <<>>
    /\ "Proxy-Authorization" \in DOMAIN calls[1].header
    /\ calls[1].header["Proxy-Authorization"] = <<"a", "b">>
    /\ "Content-Type" \in DOMAIN calls[1].header
    /\ calls[1].header["Content-Type"] = <<>>
    /\ DOMAIN loc[1].v = {"Proxy-Authorization"}
    /\ loc[1].v["Proxy-Authorization"] = "b"

\* the PID field of line j of a call, for a header with a PID column
PidOf(c, j) == c.lines[j].fields[pidIndex(c.titles)]
HasPidField(c, j) == c.lines[j].empty \/ pidIndex(c.titles) <= Len(c.lines[j].fields)
IsProcess(c, j) == ~c.lines[j].empty /\ PidOf(c, j) /= <<"-">>
IsThread(c, j) == ~c.lines[j].empty /\ PidOf(c, j) = <<"-">>
Contained(c, j) ==
    IsProcess(c, j) /\ Atoi(PidOf(c, j)).err = OK /\ Atoi(PidOf(c, j)).n \in c.procs
\* the lines the result keeps: the processes of the container and the threads
\* whose nearest process line before them is one of these
KeptLines(c) ==
    {j \in DOMAIN c.lines :
        \/ Contained(c, j)
        \/ /\ IsThread(c, j)
           /\ \E m \in 1..(j - 1) :
                 Contained(c, m) /\ \A h \in (m + 1)..(j - 1) : ~IsProcess(c, h)}
\* the rows of the lines of K, in the order of the lines
RECURSIVE RowsOf(_, _, _)
RowsOf(c, K, j) ==
    IF j > Len(c.lines) THEN <<>>
    ELSE IF j \in K
    THEN <<Append(SubSeq(c.lines[j].fields, 1, Len(c.titles) - 1),
                  SubSeq(c.lines[j].fields, Len(c.titles), Len(c.lines[j].fields)))>>
            \o RowsOf(c, K, j + 1)
    ELSE RowsOf(c, K, j + 1)

C26_RecordImpliesLayer ==
    \A id \in DOMAIN quotas : <<id>> \in DOMAIN subvolumes /\ subvolumes[<<id>>].dir
\* a Remove of a layer with a record has failed in the subvolume delete: the
\* record is gone and the layer is there; another layer has its record
C26_Witness ==
    /\ last.op = "Remove" /\ last.err = "destroy"
    /\ <<last.id>> \in DOMAIN subvolumes /\ last.id \notin DOMAIN quotas
    /\ \E o \in Ids \ {last.id} : o \in DOMAIN quotas /\ <<o>> \in DOMAIN limits

\* C27: a Create that returns an error after its create or snapshot step
\* succeeded leaves the subvolume of the layer in place: Exists of the layer
\* is true.  When the error is one of the size branch (a bad size, an
\* unknown option, a failure to enable quota, to set the limit or to write
\* the record) no record of the layer exists and Get of it succeeds whatever
\* fails; when it is one of the steps after the size branch Get succeeds
\* when nothing fails.
C27_NoRollBack ==
    Ready => \A id \in Ids, parent \in Parents, so \in StorageOpts :
        \A order \in KeyOrders(so), F \in CreateFaults(W, parent, so) :
            LET r == Create(W, id, parent, so, order, F)
                w1 == [r.w EXCEPT !.tr = <<>>]
            IN (r.err /= OK /\ CreateStepOk(r.w.tr)) =>
                  /\ <<id>> \notin DOMAIN subvolumes
                  /\ IsDir(r.w.sv, <<id>>)
                  /\ Exists(w1, id)
                  /\ Get(w1, id, {}).err = OK /\ Get(w1, id, {}).path = <<id>>
                  /\ r.err \notin {"chown", "relabel"} =>
                        /\ id \notin DOMAIN r.w.qf
                        /\ \A G \in SUBSET {"status", "enable", "limit"} :
                              Get(w1, id, G).err = OK /\ Get(w1, id, G).w = w1
\* a Create has failed in enabling quota, setting the limit or writing the
\* record: the layer is there without a record
C27_Witness ==
    /\ last.op = "Create" /\ last.err \in {"enable", "limit", "mkquotas", "write"}
    /\ <<last.id>> \in DOMAIN subvolumes /\ subvolumes[<<last.id>>].dir
    /\ last.id \notin DOMAIN quotas /\ last.id \notin created

\* the errors of subvolDelete
DeleteErrors == {"opendir", "walk", "destroy"}

\* C28: when Remove of a layer with a quota record fails in the delete of the
\* subvolume, which it does only with quota enabled, the layer's directory
\* is still there and its record is gone; a Get of the layer then succeeds,
\* whatever would fail in re-applying a limit, and issues no operation.
C28_RecordNotRestored ==
    Ready => \A id \in Ids : \A F \in RemoveFaults(W, id) :
        LET r == Remove(W, id, F)
            w1 == [r.w EXCEPT !.tr = <<>>]
        IN r.err \in DeleteErrors =>
              /\ r.w.qe
              /\ IsDir(r.w.sv, <<id>>)
              /\ id \notin DOMAIN r.w.qf
              /\ id \in DOMAIN quotas => r.w.tr[1] = Op("remove_quota", <<id>>, TRUE)
              /\ \A G \in SUBSET {"status", "enable", "limit"} :
                    /\ Get(w1, id, G).err = OK
                    /\ Get(w1, id, G).path = <<id>>
                    /\ Get(w1, id, G).w = w1
\* a Remove has failed in the delete with quota enabled; the layer is there
\* without its record, and a Get of it succeeds while the limit would fail
C28_Witness ==
    /\ last.op = "Remove" /\ last.err \in DeleteErrors
    /\ quotaEnabled
    /\ IsDir(subvolumes, <<last.id>>)
    /\ last.id \notin DOMAIN quotas
    /\ Get(W, last.id, {"limit"}).err = OK

\* C29: a call whose enable operation succeeded has set quotaEnabled once it
\* is past the write of the flag, and the flag stays true: when all calls
\* have returned and the enable of some call succeeded, quotaEnabled is
\* true.  The enable operation is issued only by a call that read the flag
\* as false after the probe.
C29_EnableRace ==
    \A i \in DOMAIN calls :
        calls[i].op \in {"Create", "Get", "Remove"} =>
            /\ (loc[i].enabled /\ pc[i] /= "setflag") => quotaEnabled
            /\ loc[i].enabled => fsQuota /\ once = "done"
            /\ pc[i] \in {"enable", "setflag"} => ~world0.qe
\* the probe had left the flag false; two calls in flight at once have both
\* read it as false and both issued the enable operation with success, and
\* have returned with the flag true
C29_Witness ==
    /\ AllDone /\ Len(calls) = 2
    /\ world0.once = "done" /\ ~world0.qe
    /\ loc[1].enabled /\ loc[2].enabled
    /\ loc[1].err = OK /\ loc[2].err = OK
    /\ quotaEnabled

\* the world with an ordinary file in the place of the directory of a layer
WithFile(w, parent) ==
    [w EXCEPT !.sv = Put1(Drop(@, Tree(w.sv, <<parent>>)), <<parent>>, FileEntry),
              !.lim = Drop(@, Tree(w.sv, <<parent>>))]
BadParent(w, parent) == <<parent>> \notin DOMAIN w.sv \/ ~w.sv[<<parent>>].dir

\* C30: Create(id, parent, opts) with a parent whose directory under
\* subvolumes is missing or is not a directory returns an error, issues no
\* snapshot operation (and no other control operation), and leaves the
\* subvolumes, the quota records, the limits, the quota state of the file
\* system, quotaEnabled and the probe as they were.
C30_BadParent ==
    Ready => \A id \in Ids, parent \in Ids, so \in SizeOpts :
        \A w \in {W, WithFile(W, parent)} :
            \A order \in KeyOrders(so), F \in CreateFaults(w, parent, so) :
                LET r == Create(w, id, parent, so, order, F)
                IN BadParent(w, parent) =>
                      /\ r.err /= OK
                      /\ [r.w EXCEPT !.tr = <<>>] = w
                      /\ \A k \in DOMAIN r.w.tr : r.w.tr[k].op = "mkdir_subvolumes"
\* a Create under a missing parent has just returned its error and the layer
\* is not there, while another layer exists; with a file in the place of that
\* layer Create from it reports that it is not a directory
C30_Witness ==
    /\ last.op = "Create" /\ last.err = "ENOENT"
    /\ <<last.id>> \notin DOMAIN subvolumes
    /\ \E p \in Ids : <<p>> \in DOMAIN subvolumes /\ p /= last.id
                       /\ Create(WithFile(W, p), last.id, p, <<>>, <<>>, {}).err = "ENOTDIR"

====
